------------------------------- MODULE Catalogue -------------------------------
(***************************************************************************)
(* The entitlements of one subscription product.  Administrators edit a    *)
(* shared draft, preview it and publish what they previewed; publishing    *)
(* sends notices to the holders of the plans whose values change.  Every   *)
(* call holds the product's advisory lock; subscriptions change their plan *)
(* without it, also between a publication's reads and its commit.          *)
(***************************************************************************)
EXTENDS Naturals, FiniteSets

CONSTANTS Definitions, Tiers, Cycles, Values,
          Unset,     \* no row, or null
          AllCycles, \* a tier's default, and a notice for all cycles
          Holders,   \* subscriptions
          NoPlan,    \* of a subscription that has not begun, or has ended
          MaxEdits   \* bound on the calls that change the draft

VARIABLES published,  \* EntitlementDefinition and EntitlementValue rows
          draft,      \* the Setting row, in a set of at most one
          page,       \* previews that an administrator may still have open
          plan,       \* tier and cycle of each subscription
          publishing, \* a publication between its reads and its commit
          told,       \* the notices each holder got of the last publication
          edits

catalogueVars == <<published, draft, page, plan, publishing, told, edits>>

Cells == Definitions \X Tiers \X (Cycles \cup {AllCycles})
Plans == Tiers \X Cycles

(* The wildcard is no cycle, and having no plan is no plan. *)
ASSUME CatalogueAssumption == AllCycles \notin Cycles /\ NoPlan \notin Plans

CatalogueInit ==
  /\ published = [defs |-> {}, values |-> [x \in Cells |-> Unset]]
  /\ draft = {} /\ page = {} /\ publishing = {}
  /\ plan = [h \in Holders |-> NoPlan]
  /\ told = [h \in Holders |-> {}]
  /\ edits = 0

Drafted == IF draft = {} THEN published ELSE (CHOOSE d \in draft : TRUE).content

(* editDraft: the first edit starts from what is published; later ones are *)
(* refused when something else has been published since.                   *)
EditDraft(content) ==
  /\ publishing = {} /\ edits < MaxEdits
  /\ \A d \in draft : d.base = published
  /\ edits' = edits + 1
  /\ draft' = {[revision |-> edits + 1, base |-> published, content |-> content]}
  /\ UNCHANGED <<published, page, plan, publishing, told>>

DefineEntitlement(def) ==
  /\ def \notin Drafted.defs
  /\ EditDraft([Drafted EXCEPT !.defs = @ \cup {def}])
ArchiveEntitlement(def) ==
  /\ def \in Drafted.defs
  /\ EditDraft([defs |-> Drafted.defs \ {def},
                values |-> [x \in Cells |-> IF x[1] = def THEN Unset ELSE Drafted.values[x]]])
(* setTierDefault, setOverride, resetOverride *)
SetValue(cell, value) ==
  /\ cell[1] \in Drafted.defs
  /\ value = Unset => cell[3] # AllCycles
  /\ EditDraft([Drafted EXCEPT !.values[cell] = value])

DiscardDraft ==
  /\ publishing = {} /\ draft # {}
  /\ draft' = {}
  /\ UNCHANGED <<published, page, plan, publishing, told, edits>>

(* An override goes before the tier's default; 0 and FALSE are values.     *)
Effective(c, def, p) ==
  IF def \notin c.defs THEN Unset
  ELSE IF c.values[<<def, p[1], p[2]>>] # Unset THEN c.values[<<def, p[1], p[2]>>]
       ELSE c.values[<<def, p[1], AllCycles>>]

Differences(before, after, p) ==
  {x \in [def : Definitions, before : Values \cup {Unset}, after : Values \cup {Unset}] :
     /\ x.before = Effective(before, x.def, p)
     /\ x.after = Effective(after, x.def, p)
     /\ x.before # x.after}

(* Mutant of Together: cycles that change the same entitlements are told together. *)
TogetherByKey(before, after, t) ==
  \A c, e \in Cycles :
    {x.def : x \in Differences(before, after, <<t, c>>)}
      = {x.def : x \in Differences(before, after, <<t, e>>)}
(* One notice for all cycles of a tier, if they change alike.              *)
Together(before, after, t) ==
  \A c, e \in Cycles : Differences(before, after, <<t, c>>) = Differences(before, after, <<t, e>>)
Groups(before, after) ==
  UNION {LET changes(c) == Differences(before, after, <<t, c>>)
         IN IF Together(before, after, t)
              THEN {[tier |-> t, cycle |-> AllCycles, changes |-> changes(c)] :
                      c \in {CHOOSE c \in Cycles : TRUE} \cap {c \in Cycles : changes(c) # {}}}
              ELSE {[tier |-> t, cycle |-> c, changes |-> changes(c)] :
                      c \in {c \in Cycles : changes(c) # {}}} : t \in Tiers}

Concerns(g, p) == p # NoPlan /\ g.tier = p[1] /\ g.cycle \in {AllCycles, p[2]}

PreviewPublish ==
  /\ publishing = {}
  /\ \E d \in draft :
       /\ d.base = published
       /\ page' = page \cup {[revision |-> d.revision, groups |-> Groups(published, d.content)]}
  /\ UNCHANGED <<published, draft, plan, publishing, told, edits>>

(* publishChanges up to its writes: the revision has to be the previewed.  *)
PreparePublish(p) ==
  /\ publishing = {}
  /\ \E d \in draft :
       /\ d.base = published /\ p.revision = d.revision
       /\ publishing' = {[content |-> d.content, plan |-> plan, previewed |-> p.groups]}
  /\ UNCHANGED <<published, draft, page, plan, told, edits>>

PublishChanges ==
  /\ \E x \in publishing :
       /\ published' = x.content
       /\ told' = [h \in Holders |->
                     {g \in Groups(published, x.content) : Concerns(g, x.plan[h])}]
  /\ draft' = {} /\ publishing' = {}
  /\ UNCHANGED <<page, plan, edits>>

FailPublish ==
  /\ publishing # {} /\ publishing' = {}
  /\ UNCHANGED <<published, draft, page, plan, told, edits>>

(* Subscriptions start, change plan and end.                               *)
MovePlan(h, p) ==
  /\ plan[h] # p
  /\ plan' = [plan EXCEPT ![h] = p]
  /\ UNCHANGED <<published, draft, page, publishing, told, edits>>

CatalogueNext ==
  \/ \E def \in Definitions : DefineEntitlement(def) \/ ArchiveEntitlement(def)
  \/ \E cell \in Cells, value \in Values \cup {Unset} : SetValue(cell, value)
  \/ DiscardDraft \/ PreviewPublish \/ PublishChanges \/ FailPublish
  \/ \E p \in page : PreparePublish(p)
  \/ \E h \in Holders, p \in Plans \cup {NoPlan} : MovePlan(h, p)

CatalogueSpec == CatalogueInit /\ [][CatalogueNext]_catalogueVars

(* Whoever holds a plan when a publication reads the subscriptions is told *)
(* of each value that changes for that plan, in one notice, and of nothing *)
(* else; and what was published is what the publisher had previewed.       *)
HoldersAreTold ==
  [][\A x \in publishing :
       published' = x.content /\ draft' = {} =>
         /\ x.previewed = Groups(published, published')
         /\ \A h \in Holders :
              LET news == {def \in Definitions :
                             x.plan[h] # NoPlan /\ Effective(published, def, x.plan[h])
                                                   # Effective(published', def, x.plan[h])}
              IN /\ Cardinality(told'[h]) = (IF news = {} THEN 0 ELSE 1)
                 /\ \A g \in told'[h] :
                      g.changes = {[def |-> def, before |-> Effective(published, def, x.plan[h]),
                                    after |-> Effective(published', def, x.plan[h])] : def \in news}
    ]_catalogueVars
================================================================================
