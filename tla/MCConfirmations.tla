--------------------------- MODULE MCConfirmations ---------------------------
(***************************************************************************)
(* Small instances of step-up confirmation: two challenges and a use; one   *)
(* challenge that is verified and used again; one that is guessed at.       *)
(***************************************************************************)
EXTENDS Confirmations, TLC

TwoChallenges == <<"create", "create", "verify", "verify", "use">>
UsedAgain     == <<"create", "verify", "use", "verify", "use">>
Guessing      == <<"create", "verify", "verify", "verify", "verify">>
AllScripts    == {TwoChallenges, UsedAgain, Guessing}
=============================================================================
