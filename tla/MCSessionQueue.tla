--------------------------- MODULE MCSessionQueue ---------------------------
(***************************************************************************)
(* Small instances of SessionQueue, and the pump loop written turn by turn *)
(* as a reference for its closed form.                                     *)
(***************************************************************************)
EXTENDS SessionQueue, TLC

Symmetric == Permutations(Standard) \cup Permutations(Interactive)

\* One turn after another, as #pump and #next take them: the lane chosen by
\* #next loses its head; a cancelled head costs nothing and the loop goes on.
RECURSIVE Turns(_, _, _, _)
Turns(reg, std, int, c) ==
  IF int # <<>> /\ (std = <<>> \/ InteractiveTurn(c)) THEN
    IF Runnable(reg, Head(int))
    THEN [active |-> Head(int), standard |-> std, interactive |-> Tail(int),
          consecutive |-> c + 1]
    ELSE Turns(reg, std, Tail(int), c)
  ELSE IF std # <<>> THEN
    IF Runnable(reg, Head(std))
    THEN [active |-> Head(std), standard |-> Tail(std), interactive |-> int,
          consecutive |-> 0]
    ELSE Turns(reg, Tail(std), int, c)
  ELSE [active |-> NoSession, standard |-> <<>>, interactive |-> <<>>,
        consecutive |-> 0]

Lanes == [active |-> active, standard |-> standard, interactive |-> interactive,
          consecutive |-> consecutive]

\* The closed form of the pump loop does what its turns do: every step that
\* picks a session, or drains the lanes, leaves the state the turns leave; so
\* does the declare that finds the lanes a rejecting runner left behind.
PumpFollowsTurns ==
  [][/\ active' # active /\ active # NoSession /\ ~rejected'
       => Lanes' = Turns(registry, standard, interactive, consecutive)
     /\ active' # active /\ active = NoSession
       => \E s \in Session :
            Lanes' = Turns(registry',
                           IF s \in Standard THEN Append(standard, s) ELSE standard,
                           IF s \in Interactive THEN Append(interactive, s) ELSE interactive,
                           consecutive)]_vars

\* So it picks what the loop would pick, and never what was cancelled while it
\* waited, whenever the cancel came.
PumpTakesItsTurns == PumpFollowsTurns /\ SkipGuarantee
=============================================================================
