------------------------------ MODULE MCFerries ------------------------------
(* Small instances of the two ferries between a worker's files and the     *)
(* shared database: commands on their way down, trades on their way up.    *)
(* They share no variable, so a behaviour is one of one of them while the  *)
(* other stands still.                                                     *)
EXTENDS CommandFerry, LedgerMirror, TLC

CONSTANTS c1, c2, t1, a1, h1, h2

TwoCmds == {c1, c2}
OneAccount == [t \in {t1} |-> a1]
\* both of the same millisecond: either may come first
Stamps == [c \in Cmds |-> 1]
ThreeRows == 1 .. 3

VARIABLE cargo

Commands == cargo = "commands"
Trades   == cargo = "trades"

FerriesInit == cargo \in {"commands", "trades"} /\ Init /\ MirrorInit /\ (Trades => ~hosted)

FerriesNext ==
  \/ Commands /\ Next /\ UNCHANGED <<cargo, mirrorVars>>
  \/ Trades /\ MirrorNext /\ UNCHANGED <<cargo, vars>>

(* The fairness of CommandFerry and of LedgerMirror, each in its behaviours. *)
FerriesSpec ==
  /\ FerriesInit /\ [][FerriesNext]_<<cargo, vars, mirrorVars>>
  /\ WF_mirrorVars(Trades /\ PassStep)
  /\ WF_vars(Commands /\ Ferry)
  /\ \A t \in Tenants :
       SF_vars(Commands /\ FerryVisit(t)) /\ WF_vars(Commands /\ Worker(t))
=============================================================================
