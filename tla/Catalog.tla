------------------------------- MODULE Catalog -------------------------------
(***************************************************************************)
(* The catalogue an administrator maintains: products, their plans with a  *)
(* metered feature each, add-ons, and the licenses sold under them         *)
(* (handler/admin.go, store/admin.go, store/addons.go), as far as the type *)
(* of the product, which decides what a plan may configure and whether     *)
(* releases exist (model.ProductSupports), the Stripe price, which names   *)
(* one plan, and the quota a license is entitled to                        *)
(* (service/entitlement.go, service/usage.go) are concerned.               *)
(*                                                                         *)
(* A desk handles one request: it reads and checks, and a later statement  *)
(* writes what it read, the whole row for products and plans, or fails on  *)
(* a constraint of the database.  A request changes one field; one that    *)
(* changes several is several here.                                        *)
(***************************************************************************)
EXTENDS Naturals

CONSTANTS Products, Plans, Prices, Addons, Licenses,
          Admins,              \* the requests handled at once
          Stock,               \* products there are from the beginning, hybrid ones
          None,                \* no row, no price
          Features,            \* what plans configure
          MaxEdits             \* bound on the requests of the run

Types == {"desktop", "saas", "hybrid"}

ASSUME CatalogConstantsOK ==
    /\ Stock \subseteq Products
    /\ None \notin Products \cup Plans \cup Prices \cup Types
    /\ Products \cap Plans = {}  \* both are UUIDs
    /\ Features \subseteq {"activations", "seats", "floating"}
    /\ MaxEdits \in Nat

VARIABLES type,      \* products.type, None when there is no row
          plan,      \* plans, with the entitlement of the metered feature
          live,      \* products with a draft or published release
          yanked,    \* products with a yanked release
          addon,     \* addons for the metered feature
          license,   \* licenses
          attached,  \* license_addons
          gone,      \* identifiers of deleted products and plans, UUIDs never drawn again
          edit,      \* administrator -> the request in hand
          edits

catalogVars == <<type, plan, live, yanked, addon, license, attached, gone, edit, edits>>

NoPlan == [product |-> None, activations |-> FALSE, seats |-> FALSE, floating |-> FALSE,
           price |-> None, quota |-> 0]
NoAddon == [product |-> None, quota |-> 0]
NoLicense == [product |-> None, plan |-> None]
Quotas == {1, 2}
NoEdit == [op |-> "none", id |-> None, row |-> None]

ProductSupports(t, capability) ==
    CASE t = "desktop" -> capability \in {"activations", "releases"}
      [] t = "saas"    -> capability = "seats"
      [] t = "hybrid"  -> TRUE
      [] OTHER         -> FALSE

(* What of a plan the product's type must support. *)
Needs(p) == {c \in {"activations", "seats"} : p[c]} \cup (IF p.floating THEN {"activations"} ELSE {})
Fits(p, t) == \A c \in Needs(p) : ProductSupports(t, c)
PlansOf(q) == {p \in Plans : plan[p].product = q}
Exists(p) == plan[p].product # None
FindPlanByStripePrice(price) == {p \in Plans : Exists(p) /\ plan[p].price = price}
StripePriceTaken(price, except) == price # None /\ FindPlanByStripePrice(price) \ {except} # {}

CatalogInit == /\ type = [q \in Products |-> IF q \in Stock THEN "hybrid" ELSE None]
               /\ plan = [p \in Plans |-> NoPlan]
               /\ live = {} /\ yanked = {}
               /\ addon = [a \in Addons |-> NoAddon]
               /\ license = [l \in Licenses |-> NoLicense]
               /\ attached = {} /\ gone = {}
               /\ edit = [d \in Admins |-> NoEdit]
               /\ edits = 0

Rows == <<type, plan, live, yanked, addon, license, attached, gone>>
Opens(d) == edit[d] = NoEdit /\ edits < MaxEdits /\ edits' = edits + 1
Holds(d, op, id, row) == edit' = [edit EXCEPT ![d] = [op |-> op, id |-> id, row |-> row]]
Writes(d, op) == edit[d].op = op /\ edit' = [edit EXCEPT ![d] = NoEdit] /\ UNCHANGED edits
Row(d) == edit[d].row
Fresh(id) == id \notin gone /\ \A d \in Admins : edit[d].id # id
Id(d) == edit[d].id

(***************************************************************************)
(* Reads and checks.                                                       *)
(***************************************************************************)
UpdateProduct_ReleasesOnly(d, q, t) ==
    /\ Opens(d) /\ type[q] # None
    /\ t # type[q] => (q \notin live \/ ProductSupports(t, "releases"))
    /\ Holds(d, "saveProduct", q, t) /\ UNCHANGED Rows

UpdateProduct(d, q, t) ==
    /\ Opens(d) /\ type[q] # None
    /\ t # type[q] => /\ \A p \in PlansOf(q) : Fits(plan[p], t)
                      /\ q \notin live \/ ProductSupports(t, "releases")
    /\ Holds(d, "saveProduct", q, t) /\ UNCHANGED Rows

CreatePlan(d, p, row) ==
    /\ Opens(d) /\ ~Exists(p) /\ Fresh(p)
    /\ row.product # None /\ type[row.product] # None
    /\ Fits(row, type[row.product])
    /\ ~StripePriceTaken(row.price, p)
    /\ Holds(d, "newPlan", p,
             [row EXCEPT !.activations = @ \/ ProductSupports(type[row.product], "activations")])
    /\ UNCHANGED Rows

(* Only the requested field is checked; zero seats or activations always pass. *)
UpdatePlan(d, p, field, value) ==
    LET row == [plan[p] EXCEPT ![field] = value] IN
    /\ Opens(d) /\ Exists(p)
    /\ field \in {"activations", "seats", "floating"} /\ value =>
          Fits([NoPlan EXCEPT ![field] = TRUE], type[plan[p].product])
    /\ field = "price" => ~StripePriceTaken(value, p)
    /\ Holds(d, "savePlan", p, row) /\ UNCHANGED Rows

DeletePlan(d, p) ==
    /\ Opens(d) /\ Exists(p) /\ \A l \in Licenses : license[l].plan # p
    /\ Holds(d, "dropPlan", p, None) /\ UNCHANGED Rows

CreateLicense(d, l, p) ==
    /\ Opens(d) /\ license[l] = NoLicense /\ Fresh(l) /\ Exists(p)
    /\ Holds(d, "saveLicense", l, [product |-> plan[p].product, plan |-> p]) /\ UNCHANGED Rows

ChangeLicensePlan_AnyProduct(d, l, p) ==
    /\ Opens(d) /\ license[l] # NoLicense /\ Exists(p)
    /\ Holds(d, "saveLicense", l, [license[l] EXCEPT !.plan = p]) /\ UNCHANGED Rows

ChangeLicensePlan(d, l, p) ==
    /\ Opens(d) /\ license[l] # NoLicense /\ Exists(p)
    /\ plan[p].product = license[l].product
    /\ Holds(d, "saveLicense", l, [license[l] EXCEPT !.plan = p]) /\ UNCHANGED Rows

DraftRelease_AnyType(d, q) ==
    /\ Opens(d) /\ type[q] # None
    /\ Holds(d, "release", q, None) /\ UNCHANGED Rows

(* A draft is created, or a yanked release is published again. *)
DraftRelease(d, q) ==
    /\ Opens(d) /\ type[q] # None /\ ProductSupports(type[q], "releases")
    /\ Holds(d, "release", q, None) /\ UNCHANGED Rows

(***************************************************************************)
(* Writes.  A write that a constraint of the database refuses changes      *)
(* nothing.                                                                *)
(***************************************************************************)
SaveProduct(d) ==
    /\ Writes(d, "saveProduct")
    /\ type' = [type EXCEPT ![Id(d)] = IF @ = None THEN None ELSE Row(d)]
    /\ UNCHANGED <<plan, live, yanked, addon, license, attached, gone>>

(* plans_product_id_fkey, idx_plans_stripe_price_unique; a row that is gone is
   not written.  The entitlement is a row of its own, left alone. *)
Accepts_NoIndex(p, row) == type[row.product] # None
Accepts(p, row) == type[row.product] # None /\ ~StripePriceTaken(row.price, p)
Stored(p, row) == [row EXCEPT !.quota = plan[p].quota]

InsertPlan(d) ==
    /\ Writes(d, "newPlan")
    /\ plan' = IF Accepts(Id(d), Row(d)) THEN [plan EXCEPT ![Id(d)] = Row(d)] ELSE plan
    /\ UNCHANGED <<type, live, yanked, addon, license, attached, gone>>

SavePlan(d) ==
    /\ Writes(d, "savePlan")
    /\ plan' = IF Exists(Id(d)) /\ Accepts(Id(d), Row(d))
               THEN [plan EXCEPT ![Id(d)] = Stored(Id(d), Row(d))] ELSE plan
    /\ UNCHANGED <<type, live, yanked, addon, license, attached, gone>>

DropPlan(d) ==
    /\ Writes(d, "dropPlan")
    /\ plan' = IF \E l \in Licenses : license[l].plan = Id(d) THEN plan
               ELSE [plan EXCEPT ![Id(d)] = NoPlan]
    /\ gone' = IF plan' = plan THEN gone ELSE gone \cup {Id(d)}
    /\ UNCHANGED <<type, live, yanked, addon, license, attached>>

SaveLicense(d) ==
    /\ Writes(d, "saveLicense")
    /\ license' = IF Exists(Row(d).plan) THEN [license EXCEPT ![Id(d)] = Row(d)] ELSE license
    /\ UNCHANGED <<type, plan, live, yanked, addon, attached, gone>>

SaveRelease(d) ==
    /\ Writes(d, "release")
    /\ live' = IF type[Id(d)] = None THEN live ELSE live \cup {Id(d)}
    /\ yanked' = yanked \ {Id(d)}
    /\ UNCHANGED <<type, plan, addon, license, attached, gone>>

(***************************************************************************)
(* Requests of one statement.                                              *)
(***************************************************************************)
One(d) == Opens(d) /\ UNCHANGED edit

CreateProduct(d, q, t) ==
    /\ One(d) /\ type[q] = None /\ Fresh(q) /\ type' = [type EXCEPT ![q] = t]
    /\ UNCHANGED <<plan, live, yanked, addon, license, attached, gone>>

(* The check on licenses repeats what the foreign keys refuse: plans and
   licenses of the product, and its releases. *)
DeleteProduct(d, q) ==
    /\ One(d) /\ type[q] # None /\ PlansOf(q) = {} /\ q \notin live \cup yanked
    /\ \A l \in Licenses : license[l].product # q
    /\ type' = [type EXCEPT ![q] = None] /\ gone' = gone \cup {q}
    /\ addon' = [a \in Addons |-> IF addon[a].product = q THEN NoAddon ELSE addon[a]]
    /\ attached' = {x \in attached : addon[x[2]].product # q}
    /\ UNCHANGED <<plan, live, yanked, license>>

WithdrawRelease(d, q) ==
    /\ One(d) /\ q \in live /\ live' = live \ {q} /\ yanked' = yanked \cup {q}
    /\ UNCHANGED <<type, plan, addon, license, attached, gone>>

SetEntitlement(d, p, quota) ==
    /\ One(d) /\ Exists(p) /\ plan' = [plan EXCEPT ![p].quota = quota]
    /\ UNCHANGED <<type, live, yanked, addon, license, attached, gone>>

SetAddon(d, a, q, quota) ==
    /\ One(d) /\ type[q] # None /\ addon[a].product \in {None, q}
    /\ addon' = [addon EXCEPT ![a] = [product |-> q, quota |-> quota]]
    /\ UNCHANGED <<type, plan, live, yanked, license, attached, gone>>

DeleteAddon(d, a) ==
    /\ One(d) /\ addon[a] # NoAddon
    /\ addon' = [addon EXCEPT ![a] = NoAddon] /\ attached' = {x \in attached : x[2] # a}
    /\ UNCHANGED <<type, plan, live, yanked, license, gone>>

AddLicenseAddon(d, l, a) ==
    /\ One(d) /\ license[l] # NoLicense /\ addon[a] # NoAddon
    /\ attached' = attached \cup {<<l, a>>}
    /\ UNCHANGED <<type, plan, live, yanked, addon, license, gone>>

RemoveLicenseAddon(d, l, a) ==
    /\ One(d) /\ <<l, a>> \in attached /\ attached' = attached \ {<<l, a>>}
    /\ UNCHANGED <<type, plan, live, yanked, addon, license, gone>>

(* The plans a request may ask for: what it names, without an entitlement. *)
Asks(feature) == IF feature \in Features THEN BOOLEAN ELSE {FALSE}
PlanRequests == [product : Products, activations : Asks("activations"), seats : Asks("seats"),
                 floating : Asks("floating"), price : Prices \cup {None}, quota : {0}]
PlanChanges == (Features \X BOOLEAN) \cup ({"price"} \X (Prices \cup {None}))

ServeAdmin(d) ==
    \/ SaveProduct(d) \/ InsertPlan(d) \/ SavePlan(d) \/ DropPlan(d) \/ SaveLicense(d) \/ SaveRelease(d)
    \/ \E q \in Products : \/ DeleteProduct(d, q) \/ DraftRelease(d, q) \/ WithdrawRelease(d, q)
                           \/ \E t \in Types : CreateProduct(d, q, t) \/ UpdateProduct(d, q, t)
                           \/ \E a \in Addons, n \in Quotas : SetAddon(d, a, q, n)
    \/ \E p \in Plans : \/ DeletePlan(d, p)
                        \/ \E row \in PlanRequests : CreatePlan(d, p, row)
                        \/ \E c \in PlanChanges : UpdatePlan(d, p, c[1], c[2])
                        \/ \E n \in Quotas \cup {0} : SetEntitlement(d, p, n)
                        \/ \E l \in Licenses : CreateLicense(d, l, p) \/ ChangeLicensePlan(d, l, p)
    \/ \E a \in Addons : \/ DeleteAddon(d, a)
                         \/ \E l \in Licenses : AddLicenseAddon(d, l, a) \/ RemoveLicenseAddon(d, l, a)

CatalogNext == \E d \in Admins : ServeAdmin(d)

CatalogSpec == CatalogInit /\ [][CatalogNext]_catalogVars

(***************************************************************************)
(* The quota of a license: what /license/entitlements reports for it       *)
(* (service/entitlement.go), and what /license/usage accepts               *)
(* (service/usage.go).  0: no quota is reported, the use is refused.       *)
(***************************************************************************)
Check(l) == IF \E a \in Addons : <<l, a>> \in attached
            THEN {addon[a].quota : a \in {b \in Addons : <<l, b>> \in attached}}
            ELSE {plan[license[l].plan].quota}
RecordUsage(l) == plan[license[l].plan].quota

(***************************************************************************)
(* Properties.                                                             *)
(***************************************************************************)
CatalogTypeOK ==
    /\ type \in [Products -> Types \cup {None}]
    /\ \A p \in Plans : plan[p] \in [product : Products \cup {None}, activations : BOOLEAN, seats : BOOLEAN,
                                     floating : BOOLEAN, price : Prices \cup {None}, quota : Quotas \cup {0}]
    /\ live \subseteq Products /\ yanked \subseteq Products
    /\ addon \in [Addons -> [product : Products \cup {None}, quota : Quotas \cup {0}]]
    /\ license \in [Licenses -> [product : Products \cup {None}, plan : Plans \cup {None}]]
    /\ attached \subseteq Licenses \X Addons
    /\ gone \subseteq Products \cup Plans
    /\ edits \in 0..MaxEdits

(* No plan configures what the type of its product does not support: the
   checks of UpdateProduct, CreatePlan and UpdatePlan, each against the rows
   it read, leave none behind. *)
PlansFitProduct == \A p \in Plans : Exists(p) => Fits(plan[p], type[plan[p].product])

(* No product without releases has one that is a draft or published, so that
   no release becomes unreachable by a change of the type or by an unyank. *)
ReleasesReachable == \A q \in live : ProductSupports(type[q], "releases")

(* The plan of a license exists and belongs to the product of the license,
   however creations, plan changes and deletions interleave. *)
LicenseFitsPlan == \A l \in Licenses : license[l] # NoLicense =>
                      /\ Exists(license[l].plan)
                      /\ plan[license[l].plan].product = license[l].product

(* A Stripe price names one plan, also when two administrators set it at once:
   a checkout made outside the server resolves its plan by price alone. *)
OnePlanPerPrice == \A p1, p2 \in Plans : p1 # p2 /\ plan[p1].price # None => plan[p1].price # plan[p2].price

(* The quota reported for a license is the quota its usage is held to. *)
QuotaAsAdvertised == \A l \in Licenses : license[l] # NoLicense => Check(l) = {RecordUsage(l)}
==============================================================================
