------------------------------ MODULE MCHarbor ------------------------------
(* Four plans for TLC, each with enough messages to make a queue grow. *)
EXTENDS Harbor

To(h, k) == [from |-> h, to |-> k]
MCPlans ==
    {<<To(1, Handle(2, 1)), To(1, Handle(2, 1)), To(1, Handle(2, 1))>>,
     <<To(1, 0), To(1, Handle(2, 1)), To(1, 0)>>,
     <<To(2, Handle(1, 1)), To(1, Handle(2, 2))>>,
     <<To(2, 0), To(1, Handle(3, 1))>>}
=============================================================================
