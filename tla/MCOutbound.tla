----------------------------- MODULE MCOutbound -----------------------------
(* Model values and bounds for TLC. *)
EXTENDS Outbound, TLC

CONSTANTS txt, f1, f2, m1, m2, m3, pick, api

MCFiles == <<f1, f2>>
MCMenus == <<m1, m2, m3>>
(* One kind of file stands for the four: the worker handles them alike.     *)
Sends  == {txt :> "text", (f1 :> "image") @@ (f2 :> "document")}
Others == {api :> k : k \in (MessageKinds \cup ChangeKinds \cup QueryKinds) \ {"text"}}
Burst  == [m \in {m1, m2, m3} |-> "text"]
Pair   == [m \in {m1, m2} |-> "text"]
Choice == [m \in {m1, pick} |-> "text"]
MCLoads == Sends \cup Others \cup {Burst, Pair, Choice}
MCBudget(l) == IF l = Burst THEN 0 ELSE IF l \in {Pair, Choice} THEN 1 ELSE 2
Symmetry == Permutations(Handlers)
=============================================================================
