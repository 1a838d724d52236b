--------------------------- MODULE MCControlPlane ---------------------------
(* Two clients, three descriptors of which two pairs collide (by alias and by
   repository), transitions that lead back to an earlier state, one event that
   carries none, and recorders of one project, so that two READs of one
   execution, of one client or of both, may be recorded between other writes. *)
EXTENDS ControlPlaneRegistry, TLC

CONSTANTS w1, w2, r1, r2

MCDescriptors ==
    {[id |-> "p", repository |-> "r", aliases |-> {}],
     [id |-> "q", repository |-> "s", aliases |-> {"p"}],
     [id |-> "o", repository |-> "r", aliases |-> {}]}

P == CHOOSE d \in MCDescriptors : d.id = "p"
MCRecorder == [w \in {w1, w2} |-> P]
Shift(a, b) == [previous |-> a, next |-> b]
MCEvents ==
    {[id |-> 1, project |-> P, transition |-> Shift(Genesis, "A")],
     [id |-> 2, project |-> P, transition |-> Shift("A", "B")],
     [id |-> 3, project |-> P, transition |-> Shift("B", "A")],
     [id |-> 4, project |-> P, transition |-> Absent]}

Sym == Permutations({w1, w2}) \cup Permutations({r1, r2})
=============================================================================
