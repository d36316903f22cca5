--------------------------- MODULE MCPublication ---------------------------
(***************************************************************************)
(* Instances of Publication for TLC.                                       *)
(***************************************************************************)
EXTENDS PublicationProperties

OneServiceEach == [a \in Artifacts |-> a]
OneService == [a \in Artifacts |-> 1]

(* Artifact 1 is revised upstream once, the others never, and then it does *)
(* not matter when they are landed.                                        *)
FirstIsRevised ==
  {o \in Artifacts \X Contents \X (1 .. MaxStamp) : o[1] = 1 \/ (o[2] = 1 /\ o[3] = 1)}
AllOffered == Artifacts \X Contents \X (1 .. MaxStamp)
EachZoneOnce == Zones \X {1}

DeployedC1 == [s \in Services |-> "c1"]

AcceptAll == Artifacts \X Contents \X Contracts
(* The revised contract refuses the second version of artifact 1.          *)
RevisionRefuses == AcceptAll \ {<<1, 2, "c2">>}
(* The first version of artifact 1 is refused by every contract.           *)
FirstRefused == {x \in AcceptAll : x[1] # 1 \/ x[2] # 1}
=============================================================================
