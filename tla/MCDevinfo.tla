----------------------------- MODULE MCDevinfo -----------------------------
(***************************************************************************)
(* MountTable and DiskLinks with a few lines: a device mounted in two      *)
(* places, a source that is a link, and a line that is no text.              *)
(***************************************************************************)
EXTENDS MountTable

MCLines == {
  [kind |-> "mount",   by |-> "", src |-> "sda", dest |-> "/a"],
  [kind |-> "mount",   by |-> "", src |-> "sda", dest |-> "/b"],
  [kind |-> "bylink",  by |-> "partuuid", src |-> "n", dest |-> "/b"],
  [kind |-> "garbled", by |-> "", src |-> "none", dest |-> "/a"] }
=============================================================================
