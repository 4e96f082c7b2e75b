---------------------------- MODULE MCBackOffice ----------------------------
(***************************************************************************)
(* BackOffice, with what each setting works on kept small.                 *)
(***************************************************************************)
EXTENDS BackOffice

(* The update that reads before it locks is looked at where nothing has to *)
(* be signed, with one publication and one key; objects are deleted of one *)
(* platform.                                                               *)
SmallReleases ==
  /\ snapshotGate => keys <= 1 /\ publication["p2"].step = "idle"
  /\ cleanup \subseteq {"mac"}

(* One request at a time is enough of one desk or clerk, and one code is   *)
(* enough of two requests.                                                 *)
SmallTeam == focus = "one desk" => desk[2].at = "idle"
SmallSignIn ==
  /\ focus = "one request" => At(2, "free") /\ misses = 0
  /\ focus = "requests" => code[2].state = "none" /\ token[4].state = "none"

(* Several administrators share two products, two plans and a price; one   *)
(* alone works on a product of its own with an add-on.                     *)
Plain(p) == Needs(p) \subseteq {"activations"} /\ ~p.floating
SmallCatalog ==
  /\ focus = "admins" =>
       /\ edits <= 4 /\ type["q3"] = None
       /\ \A p \in Plans : Plain(plan[p])
       /\ \A d \in Admins : edit[d].op \in {"newPlan", "savePlan"} => Plain(Row(d))
       /\ addon = [a \in Addons |-> NoAddon]
  /\ focus = "one admin" =>
       /\ type["q1"] = "hybrid" /\ type["q2"] = "hybrid" /\ live \cup yanked \subseteq {"q3"}
       /\ \A d \in Admins : d # "d1" => edit[d] = NoEdit
       /\ plan["p2"] = NoPlan /\ \A p \in Plans : plan[p].product \in {None, "q3"} /\ plan[p].price = None
       /\ \A a \in Addons : addon[a].product \in {None, "q3"}

MCInit ==
  /\ Init
  /\ requireSigning = ~ snapshotGate
  /\ focus # "releases" => requireSigning

Small == SmallReleases /\ SmallTeam /\ SmallSignIn /\ SmallCatalog

MCSpec == MCInit /\ [][Next /\ Small']_officeVars
=============================================================================
