--------------------------- MODULE MCComposeTest ---------------------------
(* Two experiments with two containers at most, and the flags that the       *)
(* setters of the builder make: its defaults, with_reuse, with_prune_reuse   *)
(* for matching containers only, with_clean(false) without autorun,          *)
(* with_prune(false) that does not clean on a panic, and the host network.   *)
EXTENDS ComposeTest, TLC

FlagsOf(reuse, prune, matching, clean, onPanic, autorun, host) ==
  [reuse |-> reuse, prune |-> prune, matching |-> matching, clean |-> clean,
   onPanic |-> onPanic, autorun |-> autorun, host |-> host]

Default == FlagsOf(FALSE, TRUE, FALSE, TRUE, TRUE, TRUE, FALSE)
Reusing == FlagsOf(TRUE, FALSE, FALSE, TRUE, TRUE, TRUE, FALSE)
Matching == FlagsOf(FALSE, FALSE, TRUE, TRUE, TRUE, TRUE, FALSE)
Keeping == FlagsOf(FALSE, TRUE, FALSE, FALSE, TRUE, FALSE, FALSE)
NoPrune == FlagsOf(FALSE, FALSE, FALSE, TRUE, FALSE, TRUE, FALSE)
OnHost == FlagsOf(FALSE, TRUE, FALSE, TRUE, TRUE, TRUE, TRUE)

MCFlags == {Default, Reusing, Matching, Keeping, NoPrune, OnHost}
=============================================================================
