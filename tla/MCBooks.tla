------------------------------ MODULE MCBooks ------------------------------
(* Small instances of the four modules about an agent's money: its capital *)
(* and its fills as the books have them, the logs both are checked with,   *)
(* and the breaker that acts on the loss.  They share no variable, so a    *)
(* behaviour is one of one of them while the others stand still.           *)
EXTENDS Capital, FillBook, LogScan, Breaker

(* Distinct amounts: a movement counted twice or left out shows in a sum.  *)
TwoAmounts == <<400, 100>>
(* A sale of part of a position, with a cost that does not divide.         *)
TwoOrders ==
  {[side |-> "buy", qty |-> 3, cash |-> 10], [side |-> "sell", qty |-> 2, cash |-> 8]}

VARIABLE subject

booksVars == <<subject, capitalVars, fillVars, scanVars, breakerVars>>

BooksInit ==
  /\ subject \in {"capital", "fills", "logs", "breaker"}
  /\ CapitalInit /\ FillInit /\ ScanInit /\ BreakerInit
  /\ subject # "capital" => ~hosted /\ ~scanOn
  /\ subject # "fills" => ~legacy
  /\ subject # "logs" => from = 0 /\ to = 0 /\ span = 1

BooksNext ==
  \/ subject = "capital" /\ CapitalNext /\ UNCHANGED <<subject, fillVars, scanVars, breakerVars>>
  \/ subject = "fills" /\ FillNext /\ UNCHANGED <<subject, capitalVars, scanVars, breakerVars>>
  \/ subject = "logs" /\ ScanNext /\ UNCHANGED <<subject, capitalVars, fillVars, breakerVars>>
  \/ subject = "breaker" /\ BreakerNext /\ UNCHANGED <<subject, capitalVars, fillVars, scanVars>>

BooksSpec == BooksInit /\ [][BooksNext]_booksVars
=============================================================================
