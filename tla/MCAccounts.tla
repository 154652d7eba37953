----------------------------- MODULE MCAccounts -----------------------------
(***************************************************************************)
(* Small instances of Accounts for TLC.                                    *)
(***************************************************************************)
EXTENDS Accounts

CONSTANTS r1, r2, p1, p2

(* Codes of one number, two requests at once, one attempt too many.        *)
TwoGuess ==
  [slots |-> {r1, r2}, phones |-> {p1}, ops |-> {}, guesses |-> TRUE,
   codes |-> 2, ids |-> 1, sessions |-> 1, faults |-> 0]

(* Three codes of one number, two requests at once, no wrong guess. *)
ThreeCodes ==
  [TwoGuess EXCEPT !.guesses = FALSE, !.codes = 3, !.ids = 0, !.sessions = 0]

(* One account from login to deletion and the next one on its number, two  *)
(* requests at once.                                                       *)
TwoRequests ==
  [slots |-> {r1, r2}, phones |-> {p1},
   ops |-> {"fcm", "delete", "restore", "enroll"},
   guesses |-> FALSE, codes |-> 0, ids |-> 2, sessions |-> 2, faults |-> 1]

(* Everything, one request after the other. *)
OneByOne ==
  [slots |-> {r1}, phones |-> {p1, p2}, ops |-> Customers \cup Others,
   guesses |-> FALSE, codes |-> 0, ids |-> 2, sessions |-> 1, faults |-> 1]

MCWorlds == {TwoGuess, ThreeCodes, TwoRequests, OneByOne}
=============================================================================
