------------------------------ MODULE HouseProofs ------------------------------
(***************************************************************************)
(* The safety of a house's memberships, ballots, energy data, local        *)
(* connector and statements, for every value of their constants: each has  *)
(* an invariant of its own, and a step of the house is a step of one       *)
(* service or leaves it alone.  What a statement adds up to is shown in    *)
(* StatementProofs.                                                        *)
(***************************************************************************)
EXTENDS House, StatementProofs
-------------------------------------------------------------------------------
(* The memberships of a person.                                             *)

\* The rows and the records of the organisations have their types; the other
\* variables are not needed for what follows.
Typed ==
    /\ row \in [Houses -> [role : Roles, origin : Orgs \cup {NoOrg}]]
    /\ member \in [Orgs -> [in : BOOLEAN, undo : [Houses -> Roles \cup {"untracked"}]]]
    /\ own \in [Houses -> Roles]
    /\ edit \in [on : BOOLEAN, roles : [Houses -> Roles]]

\* A stranded row is an organisation's, and no decision of a house admin.
Stranding ==
    /\ stranded \subseteq overtaken
    /\ \A h \in Houses : h \in stranded => row[h].origin # NoOrg

\* Restores needs GrantsCovered: a row that cannot be taken back could not be
\* restored either.
MembersInv == Typed /\ Stranding /\ GrantsCovered /\ Restores

LEMMA MembersInit == Init => MembersInv
<1> SUFFICES ASSUME Init PROVE MembersInv
  OBVIOUS
<1>1. Typed
  BY DEF Init, Typed, NoRow, Stranger, NoEdit, Roles
<1>2. \A h \in Houses : row[h] = NoRow /\ own[h] = "none"
  BY DEF Init
<1> QED
  BY <1>1, <1>2 DEF Init, MembersInv, Stranding, GrantsCovered, Restores, NoRow

-------------------------------------------------------------------------------
(* The organisations' transactions.                                         *)

LEMMA GrantStep ==
    ASSUME MembersInv, NEW o \in Orgs, NEW role \in GrantRoles, Grant(o, role)
    PROVE  MembersInv'
<1> DEFINE todo == {h \in houses[o] : ~Kept(o, h)}
           undo(h) == IF h \in todo /\ ~Tracked(o, h) THEN row[h].role
                      ELSE member[o].undo[h]
<1>1. /\ row' = [h \in Houses |-> IF h \in todo THEN [role |-> role, origin |-> o] ELSE row[h]]
      /\ member' = [member EXCEPT ![o] = [in |-> TRUE, undo |-> [h \in Houses |-> undo(h)]]]
      /\ \A h \in todo : Tracked(o, h) \/ row[h].origin = NoOrg
      /\ UNCHANGED <<own, edit, overtaken, stranded>>
  BY DEF Grant
<1>2. o # NoOrg /\ role # "none" /\ role \in Roles
  BY RolesAssumption DEF Roles
<1>3. \A h \in Houses : undo(h) \in Roles \cup {"untracked"}
  BY DEF MembersInv, Typed
<1>4. /\ member'[o].in /\ \A h \in Houses : member'[o].undo[h] = undo(h)
      /\ \A p \in Orgs : p # o => member'[p] = member[p]
  <2>1. member'[o] = [in |-> TRUE, undo |-> [h \in Houses |-> undo(h)]]
    BY <1>1 DEF MembersInv, Typed
  <2> HIDE DEF undo
  <2>2. member'[o].in /\ \A h \in Houses : member'[o].undo[h] = undo(h)
    BY <2>1
  <2> QED
    BY <1>1, <2>2 DEF MembersInv, Typed
<1>5. \A h \in Houses : row'[h] = IF h \in todo THEN [role |-> role, origin |-> o] ELSE row[h]
  BY <1>1
<1>6. Typed'
  <2>1. row' \in [Houses -> [role : Roles, origin : Orgs \cup {NoOrg}]]
    BY <1>1, <1>2 DEF MembersInv, Typed
  <2>2. [in |-> TRUE, undo |-> [h \in Houses |-> undo(h)]]
          \in [in : BOOLEAN, undo : [Houses -> Roles \cup {"untracked"}]]
    BY <1>3
  <2> HIDE DEF undo
  <2>3. member' \in [Orgs -> [in : BOOLEAN, undo : [Houses -> Roles \cup {"untracked"}]]]
    BY <1>1, <2>2 DEF MembersInv, Typed
  <2> QED
    BY <1>1, <2>1, <2>3 DEF MembersInv, Typed
<1>7. \A h \in Houses : row[h].role # "untracked"
  BY RolesAssumption DEF MembersInv, Typed, Roles
<1>8. GrantsCovered'
  <2> SUFFICES ASSUME NEW h \in Houses, row'[h].origin # NoOrg
               PROVE  /\ row'[h].role # "none"
                      /\ \/ h \in stranded
                         \/ /\ member'[row'[h].origin].in
                            /\ member'[row'[h].origin].undo[h] # "untracked"
    BY <1>1 DEF GrantsCovered, Tracked
  <2>1. CASE h \in todo
    <3>1. row'[h].origin = o /\ row'[h].role = role
      BY <2>1, <1>5
    <3>2. undo(h) # "untracked"
      BY <2>1, <1>7 DEF Tracked
    <3> QED
      BY <3>1, <3>2, <1>2, <1>4
  <2>2. CASE h \notin todo
    <3>1. row'[h] = row[h] /\ row[h].origin \in Orgs
      BY <2>2, <1>5 DEF MembersInv, Typed
    <3>2. /\ row[h].role # "none"
          /\ \/ h \in stranded
             \/ member[row[h].origin].in /\ member[row[h].origin].undo[h] # "untracked"
      BY <3>1, <1>2 DEF MembersInv, GrantsCovered, Tracked
    <3>3. undo(h) = member[o].undo[h]
      BY <2>2
    <3> QED
      BY <3>1, <3>2, <3>3, <1>4
  <2> QED
    BY <2>1, <2>2
<1>9. Restores'
  <2> SUFFICES ASSUME NEW h \in Houses \ overtaken
               PROVE  own[h] = IF row'[h].origin = NoOrg THEN row'[h].role
                               ELSE member'[row'[h].origin].undo[h]
    BY <1>1 DEF Restores
  <2>1. own[h] = IF row[h].origin = NoOrg THEN row[h].role
                 ELSE member[row[h].origin].undo[h]
    BY DEF MembersInv, Restores
  <2>2. CASE h \in todo
    <3>1. row'[h].origin = o /\ member'[o].undo[h] = undo(h)
      BY <2>2, <1>4, <1>5
    <3>2. Tracked(o, h) => row[h].origin = o
      BY <2>2 DEF Kept
    <3>3. own[h] = undo(h)
      BY <2>1, <2>2, <3>2, <1>1, <1>2
    <3> QED
      BY <3>1, <3>3, <1>2
  <2>3. CASE h \notin todo
    <3>1. row'[h] = row[h] /\ row[h].origin \in Orgs \cup {NoOrg}
      BY <2>3, <1>5 DEF MembersInv, Typed
    <3>2. undo(h) = member[o].undo[h]
      BY <2>3
    <3> QED
      BY <2>1, <3>1, <3>2, <1>4
  <2> QED
    BY <2>2, <2>3
<1>10. Stranding'
  BY <1>1, <1>2, <1>5 DEF MembersInv, Stranding
<1> QED
  BY <1>6, <1>8, <1>9, <1>10 DEF MembersInv

LEMMA RemoveStep ==
    ASSUME MembersInv, NEW o \in Orgs, Remove(o)
    PROVE  MembersInv'
<1>1. /\ row' = [h \in Houses |-> IF h \in Revocable(o)
                    THEN [role |-> member[o].undo[h], origin |-> NoOrg] ELSE row[h]]
      /\ member' = [member EXCEPT ![o] = Stranger]
      /\ stranded' = {h \in stranded : row'[h].origin # NoOrg}
      /\ UNCHANGED <<own, edit, overtaken>>
  BY DEF Remove
<1>2. \A h \in Houses \ stranded : row[h].origin = o => h \in Revocable(o)
  BY RolesAssumption DEF MembersInv, GrantsCovered, Revocable
<1>3. \A h \in Revocable(o) : member[o].undo[h] \in Roles /\ h \in Houses /\ row[h].origin = o
  BY DEF MembersInv, Typed, Revocable, Tracked
<1>4. Stranger \in [in : BOOLEAN, undo : [Houses -> Roles \cup {"untracked"}]]
  BY DEF Stranger
<1>5. Typed'
  BY <1>1, <1>3, <1>4 DEF MembersInv, Typed
<1>6. \A p \in Orgs : p # o => member'[p] = member[p]
  BY <1>1 DEF MembersInv, Typed
<1>7. /\ \A h \in Revocable(o) : row'[h].role = member[o].undo[h] /\ row'[h].origin = NoOrg
      /\ \A h \in Houses \ Revocable(o) : row'[h] = row[h]
  <2>1. \A h \in Revocable(o) : row'[h] = [role |-> member[o].undo[h], origin |-> NoOrg]
    BY <1>1, <1>3
  <2>2. ASSUME NEW h \in Revocable(o)
        PROVE  row'[h].role = member[o].undo[h] /\ row'[h].origin = NoOrg
    <3>1. row'[h] = [role |-> member[o].undo[h], origin |-> NoOrg]
      BY <2>1
    <3> QED
      BY ONLY <3>1
  <2>3. \A h \in Houses \ Revocable(o) : row'[h] = row[h]
    BY <1>1
  <2> QED
    BY <2>2, <2>3
<1>8. GrantsCovered'
  <2> SUFFICES ASSUME NEW h \in Houses, row'[h].origin # NoOrg
               PROVE  /\ row'[h].role # "none"
                      /\ \/ h \in stranded'
                         \/ /\ member'[row'[h].origin].in
                            /\ member'[row'[h].origin].undo[h] # "untracked"
    BY DEF GrantsCovered, Tracked
  <2>1. row'[h] = row[h] /\ row[h].origin \in Orgs
    BY <1>7 DEF MembersInv, Typed
  <2>2. row[h].role # "none"
    BY <2>1 DEF MembersInv, GrantsCovered
  <2>3. CASE h \in stranded
    BY <2>1, <2>2, <2>3, <1>1
  <2>4. CASE h \notin stranded
    <3>1. row[h].origin # o
      BY <2>4, <1>2, <1>7
    <3> QED
      BY <2>1, <2>2, <2>4, <3>1, <1>6 DEF MembersInv, GrantsCovered, Tracked
  <2> QED
    BY <2>3, <2>4
<1>9. Restores'
  <2> SUFFICES ASSUME NEW h \in Houses \ overtaken
               PROVE  own[h] = IF row'[h].origin = NoOrg THEN row'[h].role
                               ELSE member'[row'[h].origin].undo[h]
    BY <1>1 DEF Restores
  <2>1. own[h] = IF row[h].origin = NoOrg THEN row[h].role
                 ELSE member[row[h].origin].undo[h]
    BY DEF MembersInv, Restores
  <2>2. CASE h \in Revocable(o)
    <3>1. row'[h].origin = NoOrg /\ row'[h].role = member[o].undo[h] /\ row[h].origin = o
      BY <2>2, <1>3, <1>7
    <3> QED
      BY <2>1, <3>1, RolesAssumption
  <2>3. CASE h \notin Revocable(o)
    <3>1. h \notin stranded
      BY DEF MembersInv, Stranding
    <3>2. row'[h] = row[h] /\ row[h].origin # o /\ row[h].origin \in Orgs \cup {NoOrg}
      BY <2>3, <3>1, <1>2, <1>7 DEF MembersInv, Typed
    <3> QED
      BY <2>1, <3>2, <1>6
  <2> QED
    BY <2>2, <2>3
<1>10. Stranding'
  BY <1>1 DEF MembersInv, Stranding
<1> QED
  BY <1>5, <1>8, <1>9, <1>10 DEF MembersInv

-------------------------------------------------------------------------------
(* The house admins' transactions.                                          *)

\* A row that a house admin writes is a manual one and own follows it; the
\* other houses keep theirs.
LEMMA ManualStep ==
    ASSUME MembersInv, NEW h \in Houses, NEW role \in Roles,
           row' = [row EXCEPT ![h] = [role |-> role, origin |-> NoOrg]],
           Decided(h, role), UNCHANGED <<member, edit>>
    PROVE  MembersInv'
<1>1. /\ own' = [own EXCEPT ![h] = role]
      /\ overtaken' = overtaken \ {h} /\ stranded' = stranded \ {h}
  BY DEF Decided
<1>2. Typed'
  BY <1>1 DEF MembersInv, Typed
<1>3. /\ row'[h] = [role |-> role, origin |-> NoOrg] /\ own'[h] = role
      /\ \A g \in Houses \ {h} : row'[g] = row[g] /\ own'[g] = own[g]
  BY <1>1 DEF MembersInv, Typed
<1>4. GrantsCovered'
  BY <1>1, <1>3 DEF MembersInv, GrantsCovered, Tracked
<1>5. Restores'
  BY <1>1, <1>3 DEF MembersInv, Restores
<1>6. Stranding'
  BY <1>1, <1>3 DEF MembersInv, Stranding
<1> QED
  BY <1>2, <1>4, <1>5, <1>6 DEF MembersInv

LEMMA AdminSteps ==
    ASSUME MembersInv, NEW h \in Houses,
           \/ \E role \in ManualRoles : Invite(h, role) \/ SetTenantMembership(h, role)
           \/ MutateTenantPermissions(h) \/ RemoveTenant(h)
    PROVE  MembersInv'
<1>1. ASSUME NEW role \in ManualRoles, Invite(h, role) \/ SetTenantMembership(h, role)
      PROVE  MembersInv'
  <2>1. role \in Roles
    BY DEF Roles
  <2> QED
    BY <1>1, <2>1, ManualStep DEF Invite, SetTenantMembership
<1>2. CASE MutateTenantPermissions(h)
  <2>1. row[h].role \in Roles
    BY DEF MembersInv, Typed
  <2>2. [row[h] EXCEPT !.origin = NoOrg] = [role |-> row[h].role, origin |-> NoOrg]
    BY DEF MembersInv, Typed
  <2>3. row' = [row EXCEPT ![h] = [role |-> row[h].role, origin |-> NoOrg]]
    BY <1>2, <2>2 DEF MutateTenantPermissions
  <2> QED
    BY <1>2, <2>1, <2>3, ManualStep DEF MutateTenantPermissions
<1>3. CASE RemoveTenant(h)
  <2>1. "none" \in Roles
    BY DEF Roles
  <2> QED
    BY <1>3, <2>1, ManualStep DEF RemoveTenant, NoRow
<1> QED
  BY <1>1, <1>2, <1>3

\* When the person goes, every row goes.
LEMMA GoneSteps ==
    ASSUME MembersInv, DeleteLeft \/ DeletePerson
    PROVE  MembersInv'
<1>1. row' = [h \in Houses |-> NoRow] /\ stranded' = {} /\ UNCHANGED <<member, edit>>
  BY DEF DeleteLeft, DeletePerson
<1>2. own' \in [Houses -> Roles]
  BY DEF MembersInv, Typed, DeleteLeft, DeletePerson, Roles
<1>3. Typed'
  BY <1>1, <1>2 DEF MembersInv, Typed, NoRow, Roles
<1>4. GrantsCovered'
  BY <1>1 DEF GrantsCovered, NoRow
<1>5. \A h \in Houses \ overtaken' : own'[h] = "none"
  <2>1. CASE DeletePerson
    BY <2>1 DEF DeletePerson
  <2>2. CASE DeleteLeft
    <3> SUFFICES ASSUME NEW h \in Houses \ overtaken' PROVE own[h] = "none"
      BY <2>2 DEF DeleteLeft
    <3>1. h \notin overtaken /\ row[h].role = "none"
      BY <2>2 DEF DeleteLeft
    <3>2. row[h].origin = NoOrg
      BY <3>1 DEF MembersInv, GrantsCovered
    <3> QED
      BY <3>1, <3>2 DEF MembersInv, Restores
  <2> QED
    BY <2>1, <2>2
<1>6. Restores'
  BY <1>1, <1>5 DEF Restores, NoRow
<1> QED
  BY <1>1, <1>3, <1>4, <1>6 DEF MembersInv, Stranding

\* The rows a profile edit writes have their types, and one that stays an
\* organisation's is one of those it had.
LEMMA Reconciled ==
    ASSUME MembersInv, NEW roles \in [Houses -> Roles], Reconcile(roles)
    PROVE  /\ row' \in [Houses -> [role : Roles, origin : Orgs \cup {NoOrg}]]
           /\ edit' \in [on : BOOLEAN, roles : [Houses -> Roles]]
           /\ \A h \in Houses :
                 /\ row'[h].role = roles[h]
                 /\ row'[h].origin # NoOrg =>
                        roles[h] # "none" /\ roles[h] = row[h].role /\ row'[h].origin = row[h].origin
                 /\ roles[h] # "none" /\ roles[h] = row[h].role => row'[h].origin = row[h].origin
<1> DEFINE new(h) == IF roles[h] = "none" THEN NoRow
                     ELSE [role |-> roles[h], origin |-> OriginAfter(h, roles[h])]
<1>1. row' = [h \in Houses |-> new(h)] /\ edit' = NoEdit
  BY DEF Reconcile
<1>2. \A h \in Houses : new(h) \in [role : Roles, origin : Orgs \cup {NoOrg}]
  BY DEF MembersInv, Typed, NoRow, OriginAfter, Roles
<1>3. NoEdit \in [on : BOOLEAN, roles : [Houses -> Roles]]
  BY DEF NoEdit, Roles
<1>4. ASSUME NEW h \in Houses
      PROVE  /\ new(h).role = roles[h]
             /\ new(h).origin # NoOrg =>
                    roles[h] # "none" /\ roles[h] = row[h].role /\ new(h).origin = row[h].origin
             /\ roles[h] # "none" /\ roles[h] = row[h].role => new(h).origin = row[h].origin
  BY DEF NoRow, OriginAfter
<1> HIDE DEF new
<1> QED
  BY <1>1, <1>2, <1>3, <1>4

\* The write of a profile edit: a role that did not change keeps its
\* provenance, a chosen one is manual, and a row that changed since it was
\* read is overtaken.
LEMMA WriteStep ==
    ASSUME MembersInv, NEW roles \in [Houses -> ManualRoles \cup GrantRoles \cup {"none"}],
           WriteProfile(roles)
    PROVE  MembersInv'
<1> DEFINE mine(h) == IF roles[h] # edit.roles[h] THEN roles[h] ELSE own[h]
<1>1. /\ Reconcile(roles) /\ own' = [h \in Houses |-> mine(h)]
      /\ overtaken' = overtaken \cup Misread /\ member' = member
      /\ stranded' = {h \in stranded : row'[h].origin # NoOrg}
  BY DEF WriteProfile
<1>2. roles \in [Houses -> Roles]
  BY DEF Roles
<1>3. /\ row' \in [Houses -> [role : Roles, origin : Orgs \cup {NoOrg}]]
      /\ edit' \in [on : BOOLEAN, roles : [Houses -> Roles]]
      /\ \A h \in Houses :
            /\ row'[h].role = roles[h]
            /\ row'[h].origin # NoOrg =>
                   roles[h] # "none" /\ roles[h] = row[h].role /\ row'[h].origin = row[h].origin
            /\ roles[h] # "none" /\ roles[h] = row[h].role => row'[h].origin = row[h].origin
  BY <1>1, <1>2, Reconciled
<1>4. Typed'
  <2>1. \A h \in Houses : mine(h) \in Roles
    BY <1>2 DEF MembersInv, Typed
  <2> HIDE DEF mine
  <2> QED
    BY <1>1, <1>3, <2>1 DEF MembersInv, Typed
<1>5. GrantsCovered'
  <2> SUFFICES ASSUME NEW h \in Houses, row'[h].origin # NoOrg
               PROVE  /\ row'[h].role # "none"
                      /\ \/ h \in stranded'
                         \/ member[row'[h].origin].in /\ Tracked(row'[h].origin, h)
    BY <1>1 DEF GrantsCovered, Tracked
  <2>1. row'[h].role # "none" /\ row'[h].origin = row[h].origin
    BY <1>3
  <2> QED
    BY <2>1, <1>1 DEF MembersInv, GrantsCovered
<1>6. Restores'
  <2> SUFFICES ASSUME NEW h \in Houses, h \notin overtaken, row[h].role = edit.roles[h]
               PROVE  mine(h) = IF row'[h].origin = NoOrg THEN row'[h].role
                                ELSE member[row'[h].origin].undo[h]
    BY <1>1 DEF Restores, Misread
  <2>1. own[h] = IF row[h].origin = NoOrg THEN row[h].role
                 ELSE member[row[h].origin].undo[h]
    BY DEF MembersInv, Restores
  <2>2. row[h].role = "none" => row[h].origin = NoOrg
    BY DEF MembersInv, GrantsCovered
  <2>3. CASE roles[h] = edit.roles[h]
    <3>1. CASE roles[h] = "none"
      BY <2>1, <2>2, <2>3, <3>1, <1>3
    <3>2. CASE roles[h] # "none"
      BY <2>1, <2>3, <3>2, <1>3
    <3> QED
      BY <3>1, <3>2
  <2>4. CASE roles[h] # edit.roles[h]
    BY <2>4, <1>3
  <2> QED
    BY <2>3, <2>4
<1>7. Stranding'
  BY <1>1 DEF MembersInv, Stranding
<1> QED
  BY <1>4, <1>5, <1>6, <1>7 DEF MembersInv

\* A new address: what the organisations own is stranded, and what they do not
\* own is as it was, or overtaken.
LEMMA RenameStep ==
    ASSUME MembersInv, NEW records \in [Orgs -> Records], Rename(records)
    PROVE  MembersInv'
<1>1. /\ Reconcile(edit.roles) /\ own' = own /\ member' = records
      /\ stranded' = {h \in Houses : row'[h].origin # NoOrg}
      /\ overtaken' = overtaken \cup Misread \cup stranded'
  BY DEF Rename
<1>2. edit.roles \in [Houses -> Roles]
  BY DEF MembersInv, Typed
<1>3. /\ row' \in [Houses -> [role : Roles, origin : Orgs \cup {NoOrg}]]
      /\ edit' \in [on : BOOLEAN, roles : [Houses -> Roles]]
      /\ \A h \in Houses :
            /\ row'[h].role = edit.roles[h]
            /\ row'[h].origin # NoOrg => edit.roles[h] # "none"
            /\ edit.roles[h] # "none" /\ edit.roles[h] = row[h].role =>
                   row'[h].origin = row[h].origin
  BY <1>1, <1>2, Reconciled
<1>4. Typed'
  <2>1. Records \subseteq [in : BOOLEAN, undo : [Houses -> Roles \cup {"untracked"}]]
    <3>1. Stranger \in [in : BOOLEAN, undo : [Houses -> Roles \cup {"untracked"}]]
      BY DEF Stranger
    <3> QED
      BY <3>1 DEF Records
  <2> QED
    BY <1>1, <1>3, <2>1 DEF MembersInv, Typed
<1>5. GrantsCovered'
  BY <1>1, <1>3 DEF GrantsCovered
<1>6. Restores'
  <2> SUFFICES ASSUME NEW h \in Houses, h \notin overtaken, row[h].role = edit.roles[h],
                      row'[h].origin = NoOrg
               PROVE  own[h] = row'[h].role
    BY <1>1 DEF Restores, Misread
  <2>1. row[h].origin = NoOrg
    BY <1>3 DEF MembersInv, GrantsCovered
  <2> QED
    BY <2>1, <1>3 DEF MembersInv, Restores
<1>7. Stranding'
  BY <1>1 DEF Stranding
<1> QED
  BY <1>4, <1>5, <1>6, <1>7 DEF MembersInv

-------------------------------------------------------------------------------
LEMMA MembersNext == MembersInv /\ [Next]_vars => MembersInv'
<1> SUFFICES ASSUME MembersInv, [Next]_vars PROVE MembersInv'
  OBVIOUS
<1>1. ASSUME NEW o \in Orgs, NEW role \in GrantRoles, Grant(o, role) PROVE MembersInv'
  BY <1>1, GrantStep
<1>2. ASSUME NEW o \in Orgs, Remove(o) PROVE MembersInv'
  BY <1>2, RemoveStep
<1>3. ASSUME UNCHANGED <<row, member, own, edit, overtaken, stranded>> PROVE MembersInv'
  BY <1>3 DEF MembersInv, Typed, Stranding, GrantsCovered, Restores, Tracked
<1>4. ASSUME NEW o \in Orgs, NEW S \in SUBSET Houses, SetHouses(o, S) PROVE MembersInv'
  BY <1>3, <1>4 DEF SetHouses
<1>5. ASSUME NEW h \in Houses,
             \/ \E role \in ManualRoles : Invite(h, role) \/ SetTenantMembership(h, role)
             \/ MutateTenantPermissions(h) \/ RemoveTenant(h)
      PROVE  MembersInv'
  BY <1>5, AdminSteps
<1>6. CASE CountHouses
  BY <1>3, <1>6 DEF CountHouses
<1>7. CASE DeleteLeft \/ DeletePerson
  BY <1>7, GoneSteps
<1>8. CASE ReadProfile
  <2>1. edit' \in [on : BOOLEAN, roles : [Houses -> Roles]]
    <3>1. "none" \in Roles
      BY DEF Roles
    <3> QED
      BY <1>8, <3>1 DEF ReadProfile, MembersInv, Typed
  <2> QED
    BY <1>8, <2>1 DEF ReadProfile, MembersInv, Typed, Stranding, GrantsCovered, Restores, Tracked
<1>9. ASSUME NEW roles \in [Houses -> ManualRoles \cup GrantRoles \cup {"none"}], WriteProfile(roles)
      PROVE  MembersInv'
  BY <1>9, WriteStep
<1>10. ASSUME NEW records \in [Orgs -> Records], Rename(records) PROVE MembersInv'
  BY <1>10, RenameStep
<1>11. CASE UNCHANGED vars
  BY <1>3, <1>11 DEF vars
<1> QED
  BY <1>1, <1>2, <1>4, <1>5, <1>6, <1>7, <1>8, <1>9, <1>10, <1>11 DEF Next
-------------------------------------------------------------------------------
(* The connector of a house.                                                *)

\* The requests that carry a credential, and the one that carries a code.
Carries == {"exchange", "reset", "first", "undo", "select", "unmap", "beat"}
Carrying ==
    \A r \in Pairers :
        /\ connectorRequest[r].at \in Carries => connectorRequest[r].cred \in 1 .. Creds
        /\ C!At(r, "exchange") => connectorRequest[r].code \in 1 .. Codes

\* The code in the row was handed out, and is not used up: a code that made a
\* credential left the row with it and is never handed out again.
CodesSpent ==
    /\ connector.code <= codes
    /\ \A k \in 1 .. Codes :
          /\ redeemed[k] <= 1
          /\ redeemed[k] = 1 => k <= codes /\ connector.code # k

ConnectorInv == C!TypeOK /\ Carrying /\ CodesSpent /\ C!ReadingsOwned
\* Nothing is paired, no code is out and nothing is stored.
LEMMA ConnectorInit == ASSUME C!Init PROVE ConnectorInv
<1> USE HouseAssumption DEF C!Init, C!Quiet
<1>1. C!TypeOK
  <2>1. connector \in [status : {"none", "pairing", "connected", "revoked"},
                       code : 0 .. Codes, cred : 0 .. Creds]
    OBVIOUS
  <2>2. connectorRequest \in [Pairers -> [at : C!Places, code : 0 .. Codes, cred : 0 .. Creds]]
    BY DEF C!Places
  <2>3. redeemed \in [1 .. Codes -> 0 .. Creds]
    OBVIOUS
  <2> QED BY <2>1, <2>2, <2>3 DEF C!TypeOK
<1>2. Carrying /\ CodesSpent /\ C!ReadingsOwned
  BY DEF Carrying, Carries, CodesSpent, C!ReadingsOwned, C!At
<1> QED BY <1>1, <1>2 DEF ConnectorInv

\* The requests keep their type when one of them starts, moves on or returns.
LEMMA RequestMoves ==
  ASSUME C!TypeOK, NEW r \in Pairers,
         \/ \E q \in [at : C!Places, code : 0 .. Codes, cred : 0 .. Creds] :
               connectorRequest' = [connectorRequest EXCEPT ![r] = q]
         \/ \E place \in C!Places : C!Goto(r, place)
         \/ C!Return(r)
  PROVE  connectorRequest' \in [Pairers -> [at : C!Places, code : 0 .. Codes, cred : 0 .. Creds]]
<1>1. connectorRequest \in [Pairers -> [at : C!Places, code : 0 .. Codes, cred : 0 .. Creds]]
  BY DEF C!TypeOK
<1>2. C!Quiet \in [at : C!Places, code : 0 .. Codes, cred : 0 .. Creds]
  BY HouseAssumption DEF C!Quiet, C!Places
<1>3. CASE \E place \in C!Places : C!Goto(r, place)
  BY <1>1, <1>3 DEF C!Goto
<1>4. CASE C!Return(r)
  BY <1>1, <1>2, <1>4 DEF C!Return
<1> QED BY <1>1, <1>3, <1>4

\* The row keeps its type under the only values it is given.
LEMMA TypesStay == ASSUME ConnectorInv, C!Next PROVE C!TypeOK'
<1> USE HouseAssumption DEF ConnectorInv
<1>1. CASE C!StartPairing \/ C!CodeExpires \/ C!ChangeHome
  <2>1. connector' \in [status : {"none", "pairing", "connected", "revoked"},
                        code : 0 .. Codes, cred : 0 .. Creds]
    <3>1. CASE C!StartPairing
      <4>1. codes + 1 \in 0 .. Codes
        BY <3>1 DEF C!StartPairing, C!TypeOK
      <4>2. connector.status \in {"none", "pairing", "connected", "revoked"}
        BY DEF C!TypeOK
      <4>3. connector' = [connector EXCEPT
                !.code = codes + 1,
                !.status = IF connector.cred = 0 THEN "pairing" ELSE connector.status]
        BY <3>1 DEF C!StartPairing
      <4> QED BY <4>1, <4>2, <4>3 DEF C!TypeOK
    <3>2. CASE UNCHANGED connector
      BY <3>2 DEF C!TypeOK
    <3> QED BY <1>1, <3>1, <3>2 DEF C!CodeExpires, C!ChangeHome, C!pairing
  <2> QED BY <1>1, <2>1
    DEF C!TypeOK, C!StartPairing, C!CodeExpires, C!ChangeHome, C!stored, C!pairing
<1>2. ASSUME NEW r \in Pairers, NEW k \in 1 .. Codes, C!FindCode(r, k) PROVE C!TypeOK'
  <2>1. connectorRequest' \in [Pairers -> [at : C!Places, code : 0 .. Codes, cred : 0 .. Creds]]
    <3>1. [at |-> "exchange", code |-> k, cred |-> drawn + 1]
              \in [at : C!Places, code : 0 .. Codes, cred : 0 .. Creds]
      BY <1>2 DEF C!FindCode, C!Places, C!TypeOK
    <3> QED BY <1>2, <3>1, RequestMoves DEF C!FindCode
  <2> QED BY <1>2, <2>1 DEF C!FindCode, C!TypeOK, C!stored
<1>3. ASSUME NEW r \in Pairers, C!Exchange(r) PROVE C!TypeOK'
  <2>1. connectorRequest' \in [Pairers -> [at : C!Places, code : 0 .. Codes, cred : 0 .. Creds]]
    <3>1. "reset" \in C!Places
      BY DEF C!Places
    <3> QED BY <1>3, <3>1, RequestMoves DEF C!Exchange
  <2>2. CASE C!StillThere(r)
    <3>1. connectorRequest[r].code \in 1 .. Codes /\ connectorRequest[r].cred \in 1 .. Creds
      BY <1>3 DEF C!Exchange, Carrying, Carries, C!At
    <3>2. redeemed[connectorRequest[r].code] + 1 \in 0 .. Creds
      BY <2>2, <3>1 DEF C!StillThere, CodesSpent, C!TypeOK
    <3>3. redeemed' \in [1 .. Codes -> 0 .. Creds]
      BY <1>3, <2>2, <3>2 DEF C!Exchange, C!TypeOK
    <3>4. connector' \in [status : {"none", "pairing", "connected", "revoked"},
                          code : 0 .. Codes, cred : 0 .. Creds]
      BY <1>3, <2>2, <3>1 DEF C!Exchange
    <3> QED BY <1>3, <2>1, <3>3, <3>4 DEF C!Exchange, C!TypeOK, C!stored
  <2>3. CASE ~C!StillThere(r)
    BY <1>3, <2>1, <2>3 DEF C!Exchange, C!TypeOK, C!stored
  <2> QED BY <2>2, <2>3
<1>4. ASSUME NEW r \in Pairers,
             \/ C!ResetReadings(r) \/ C!FirstReadings(r) \/ C!PersistFails(r) \/ C!Select(r)
             \/ C!ClearUnmapped(r) \/ C!StoreReadings(r) \/ C!ClearRevoked(r)
             \/ C!EraseReadings(r) \/ C!EraseProfile(r) \/ C!Fail(r)
      PROVE C!TypeOK'
  <2>1. connectorRequest' \in [Pairers -> [at : C!Places, code : 0 .. Codes, cred : 0 .. Creds]]
    <3>1. {"first", "undo", "unmap", "beat", "erase"} \subseteq C!Places
      BY DEF C!Places
    <3> QED BY <1>4, <3>1, RequestMoves
      DEF C!ResetReadings, C!FirstReadings, C!PersistFails, C!Select,
              C!ClearUnmapped, C!StoreReadings, C!ClearRevoked, C!EraseReadings, C!EraseProfile,
              C!Fail
  <2>2. C!FirstReadings(r) \/ C!StoreReadings(r) => connectorRequest[r].cred \in 1 .. Creds
    BY DEF C!FirstReadings, C!StoreReadings, Carrying, Carries, C!At
  <2>3. UNCHANGED <<connector, fresh, codes, drawn, redeemed>>
    BY <1>4 DEF C!ResetReadings, C!FirstReadings, C!PersistFails, C!Select, C!ClearUnmapped,
         C!StoreReadings, C!ClearRevoked, C!EraseReadings, C!EraseProfile, C!Fail, C!pairing
  <2>4. granted' \subseteq 1 .. Creds
    BY <1>4, <2>2 DEF C!ResetReadings, C!FirstReadings, C!PersistFails, C!Select, C!ClearUnmapped,
         C!StoreReadings, C!ClearRevoked, C!EraseReadings, C!EraseProfile, C!Fail, C!pairing, C!TypeOK
  <2>5. readings' \subseteq 1 .. Creds /\ left' \subseteq 1 .. Creds
    BY <1>4, <2>2 DEF C!ResetReadings, C!FirstReadings, C!PersistFails, C!Select, C!ClearUnmapped,
         C!StoreReadings, C!ClearRevoked, C!EraseReadings, C!EraseProfile, C!Fail, C!Reset, C!Clear,
         C!Upsert,
         C!stored, C!TypeOK
  <2>6. home' \in {"unclaimed", "claimed", "mapped"}
    BY <1>4 DEF C!ResetReadings, C!FirstReadings, C!PersistFails, C!Select, C!ClearUnmapped,
         C!StoreReadings, C!ClearRevoked, C!EraseReadings, C!EraseProfile, C!Fail, C!TypeOK
  <2> QED BY <2>1, <2>3, <2>4, <2>5, <2>6 DEF C!TypeOK
<1>5. ASSUME NEW r \in Pairers, C!UndoPairing(r) \/ C!Revoke(r) PROVE C!TypeOK'
  <2>1. connectorRequest' \in [Pairers -> [at : C!Places, code : 0 .. Codes, cred : 0 .. Creds]]
    <3>1. "clear" \in C!Places
      BY DEF C!Places
    <3> QED BY <1>5, <3>1, RequestMoves DEF C!UndoPairing, C!Revoke
  <2>2. connector' \in [status : {"none", "pairing", "connected", "revoked"},
                        code : 0 .. Codes, cred : 0 .. Creds]
    BY <1>5 DEF C!UndoPairing, C!Revoke, C!Revoked
  <2> QED BY <1>5, <2>1, <2>2 DEF C!UndoPairing, C!Revoke, C!TypeOK, C!stored
<1>6. ASSUME NEW r \in Pairers, NEW c \in 1 .. Creds, C!Heartbeat(r, c) PROVE C!TypeOK'
  <2>1. connectorRequest' \in [Pairers -> [at : C!Places, code : 0 .. Codes, cred : 0 .. Creds]]
    <3>1. [C!Quiet EXCEPT !.at = "select", !.cred = c]
              \in [at : C!Places, code : 0 .. Codes, cred : 0 .. Creds]
      <4>1. C!Quiet \in [at : C!Places, code : 0 .. Codes, cred : 0 .. Creds]
        BY DEF C!Quiet, C!Places
      <4>2. "select" \in C!Places /\ c \in 0 .. Creds
        BY DEF C!Places
      <4> QED BY <4>1, <4>2
    <3> QED BY <1>6, <3>1, RequestMoves DEF C!Heartbeat
  <2> QED BY <1>6, <2>1 DEF C!Heartbeat, C!TypeOK, C!stored, C!pairing
<1> QED BY <1>1, <1>2, <1>3, <1>4, <1>5, <1>6 DEF C!Next

\* A request gets its credential where it starts and loses it where it ends.
LEMMA CredentialsStay == ASSUME ConnectorInv, C!Next PROVE Carrying'
<1> USE HouseAssumption DEF ConnectorInv, C!TypeOK, Carrying, Carries, C!At, C!Quiet, C!Places
<1>1. CASE C!StartPairing \/ C!CodeExpires \/ C!ChangeHome
  BY <1>1 DEF C!StartPairing, C!CodeExpires, C!ChangeHome
<1>2. ASSUME NEW r \in Pairers, NEW k \in 1 .. Codes, C!FindCode(r, k) PROVE Carrying'
  BY <1>2 DEF C!FindCode
<1>3. ASSUME NEW r \in Pairers,
             \/ C!Exchange(r) \/ C!ResetReadings(r) \/ C!PersistFails(r) \/ C!Select(r)
             \/ C!Revoke(r) \/ C!EraseReadings(r)
      PROVE Carrying'
  <2>1. CASE C!Return(r)
    BY <2>1 DEF C!Return
  <2>2. ASSUME NEW place \in {"reset", "first", "undo", "unmap", "beat"},
               connectorRequest[r].at \in Carries, C!Goto(r, place)
        PROVE Carrying'
    BY <2>2 DEF C!Goto
  <2>3. ASSUME NEW place \in {"clear", "erase"}, C!Goto(r, place) PROVE Carrying'
    BY <2>3 DEF C!Goto
  <2> QED
    BY <1>3, <2>1, <2>2, <2>3
       DEF C!Exchange, C!ResetReadings, C!PersistFails, C!Select, C!Revoke, C!EraseReadings
<1>4. ASSUME NEW r \in Pairers,
             \/ C!FirstReadings(r) \/ C!UndoPairing(r) \/ C!ClearUnmapped(r) \/ C!StoreReadings(r)
             \/ C!ClearRevoked(r) \/ C!EraseProfile(r) \/ C!Fail(r)
      PROVE Carrying'
  <2>1. C!Return(r)
    BY <1>4 DEF C!FirstReadings, C!UndoPairing, C!ClearUnmapped, C!StoreReadings, C!ClearRevoked,
         C!EraseProfile, C!Fail
  <2> QED BY <2>1 DEF C!Return
<1>5. ASSUME NEW r \in Pairers, NEW c \in 1 .. Creds, C!Heartbeat(r, c) PROVE Carrying'
  BY <1>5 DEF C!Heartbeat
<1> QED BY <1>1, <1>2, <1>3, <1>4, <1>5 DEF C!Next

\* Only a new code and an exchange touch the codes; the row loses its code in
\* an exchange, which found it there, and in a revocation.
LEMMA CodesStay == ASSUME ConnectorInv, C!Next PROVE CodesSpent'
<1> USE HouseAssumption DEF ConnectorInv, C!TypeOK, CodesSpent
<1>1. CASE C!StartPairing
  BY <1>1 DEF C!StartPairing
<1>2. ASSUME NEW r \in Pairers, C!Exchange(r) PROVE CodesSpent'
  <2>1. CASE C!StillThere(r)
    <3>1. connectorRequest[r].code \in 1 .. Codes /\ connector.code = connectorRequest[r].code
      BY <1>2, <2>1 DEF C!Exchange, Carrying, C!StillThere
    <3>2. redeemed[connectorRequest[r].code] = 0
      BY <3>1
    <3> QED BY <1>2, <2>1, <3>1, <3>2 DEF C!Exchange
  <2>2. CASE ~C!StillThere(r)
    BY <1>2, <2>2 DEF C!Exchange
  <2> QED BY <2>1, <2>2
<1>3. ASSUME NEW r \in Pairers, C!UndoPairing(r) \/ C!Revoke(r) PROVE CodesSpent'
  BY <1>3 DEF C!UndoPairing, C!Revoke, C!Revoked, C!Places
<1>4. CASE UNCHANGED <<connector, codes, redeemed>>
  BY <1>4
<1> QED
  BY <1>1, <1>2, <1>3, <1>4
     DEF C!Next, C!CodeExpires, C!ChangeHome, C!FindCode, C!ResetReadings, C!FirstReadings,
         C!PersistFails,
         C!Heartbeat, C!Select, C!ClearUnmapped, C!StoreReadings, C!ClearRevoked, C!EraseReadings,
         C!EraseProfile, C!Fail, C!pairing

\* A reading loses its connector only when somebody is about to empty the
\* store, and that request lets go of the store only when it is empty.
LEMMA OwnersStay == ASSUME ConnectorInv, C!Next PROVE C!ReadingsOwned'
<1> USE HouseAssumption DEF ConnectorInv, C!TypeOK, C!ReadingsOwned, C!Emptying, C!At, C!Quiet,
            C!Places
<1>1. CASE C!StartPairing \/ C!CodeExpires \/ C!ChangeHome
  BY <1>1 DEF C!StartPairing, C!CodeExpires, C!ChangeHome, C!stored, C!pairing
<1>2. ASSUME NEW r \in Pairers, NEW k \in 1 .. Codes, C!FindCode(r, k) PROVE C!ReadingsOwned'
  BY <1>2 DEF C!FindCode, C!stored
<1>3. ASSUME NEW r \in Pairers, C!Exchange(r) PROVE C!ReadingsOwned'
  <2>1. CASE C!StillThere(r)
    BY <1>3, <2>1 DEF C!Exchange, C!Goto, C!stored
  <2>2. CASE ~C!StillThere(r)
    BY <1>3, <2>2 DEF C!Exchange, C!Return, C!stored
  <2> QED BY <2>1, <2>2
<1>4. ASSUME NEW r \in Pairers,
             C!ResetReadings(r) \/ C!ClearUnmapped(r) \/ C!ClearRevoked(r) \/ C!EraseReadings(r)
      PROVE C!ReadingsOwned'
  BY <1>4 DEF C!ResetReadings, C!ClearUnmapped, C!ClearRevoked, C!EraseReadings, C!Reset, C!Clear
<1>5. ASSUME NEW r \in Pairers, C!FirstReadings(r) \/ C!StoreReadings(r) PROVE C!ReadingsOwned'
  <2>1. /\ connectorRequest[r].at \in {"first", "beat"} /\ C!Upsert(connectorRequest[r].cred)
        /\ C!Return(r)
        /\ UNCHANGED connector
    BY <1>5 DEF C!FirstReadings, C!StoreReadings, C!pairing
  <2> QED BY <2>1 DEF C!Upsert, C!Return
<1>6. ASSUME NEW r \in Pairers, C!PersistFails(r) PROVE C!ReadingsOwned'
  BY <1>6 DEF C!PersistFails, C!Goto, C!stored, C!pairing
<1>7. ASSUME NEW r \in Pairers, C!UndoPairing(r) \/ C!Revoke(r) PROVE C!ReadingsOwned'
  BY <1>7 DEF C!UndoPairing, C!Revoke, C!Goto, C!Return, C!stored
<1>8. ASSUME NEW r \in Pairers, NEW c \in 1 .. Creds, C!Heartbeat(r, c) PROVE C!ReadingsOwned'
  BY <1>8 DEF C!Heartbeat, C!stored, C!pairing
<1>9. ASSUME NEW r \in Pairers, C!Select(r) \/ C!EraseProfile(r) PROVE C!ReadingsOwned'
  BY <1>9 DEF C!Select, C!EraseProfile, C!Goto, C!Return, C!stored, C!pairing
<1>10. ASSUME NEW r \in Pairers, C!Fail(r) PROVE C!ReadingsOwned'
  <2>1. CASE C!Emptying(r)
    BY <1>10, <2>1 DEF C!Fail, C!pairing
  <2>2. CASE ~C!Emptying(r)
    BY <1>10, <2>2 DEF C!Fail, C!Return, C!pairing
  <2> QED BY <2>1, <2>2
<1> QED BY <1>1, <1>2, <1>3, <1>4, <1>5, <1>6, <1>7, <1>8, <1>9, <1>10 DEF C!Next

\* Nothing happens.
LEMMA ConnectorRests == ASSUME ConnectorInv, UNCHANGED connectors PROVE ConnectorInv'
  BY DEF connectors, ConnectorInv, C!TypeOK, Carrying, CodesSpent, C!ReadingsOwned, C!Emptying, C!At
-------------------------------------------------------------------------------
(* The ballot.                                                              *)

\* What a write has read was a ballot; it leaves a closed one closed with its
\* votes and an open one its deadline, and a vote it adds came before that.
WriteKeeps(read, new) ==
    /\ read.status # "gone"
    /\ new.status \in {"open", "closed"}
    /\ new.status = "open" => new.closes = read.closes
    /\ read.status = "closed" => new.status = "closed" /\ new.votes = read.votes
    /\ \A v \in Voters :
          new.votes[v] # read.votes[v] => read.closes = 0 \/ new.votes[v].at < read.closes
BallotWrites ==
    \A r \in Requests :
        ballotRequest[r].at = "write" => WriteKeeps(ballotRequest[r].read, ballotRequest[r].new)
MarkWrites ==
    worker.at = "write" =>
        /\ worker.read.status # "gone"
        /\ worker.new.status = worker.read.status /\ worker.new.votes = worker.read.votes
        /\ worker.new.closes = worker.read.closes
        /\ worker.to \subseteq worker.new.reminded

\* While an expired ballot is open its deadline is the one its protocol shows.
Expiring ==
    ~late => \A p \in issued :
        /\ p.status = "open" => p.closes # 0
        /\ doc.status = "open" => doc.closes = p.closes

\* Whom the worker has mailed is in the mark it will write, or in the row.
Marking == IF worker.at \in {"mark", "write"} THEN worker.to ELSE {}
Marked ==
    /\ mailed \subseteq doc.reminded \cup Marking
    /\ worker.at = "mail" => worker.to \cap mailed = {}

\* The ballot's invariant.
BallotInv == /\ V!TypeOK /\ BallotWrites /\ MarkWrites /\ Marked /\ Expiring /\ V!CountsTrue
             /\ V!RemindedOnce

\* The ballots the code makes of nothing.
LEMMA Documents == /\ V!Gone \in V!Document /\ V!Draft \in V!Document /\ V!Gone.status = "gone"
                   /\ V!Draft.status = "draft"
                   /\ V!Gone.reminded = {} /\ V!Draft.reminded = {} /\ V!NoVotes \in V!Votes
                   /\ V!Draft.votes = V!NoVotes
<1>1. V!NoVotes \in V!Votes /\ 0 \in 0 .. BallotHorizon
  BY HouseAssumption DEF V!NoVotes, V!Votes
<1>2. /\ V!Gone \in V!Document /\ V!Gone.status = "gone" /\ V!Gone.reminded = {}
      /\ V!Gone.votes = V!NoVotes
  BY <1>1 DEF V!Gone, V!Document
<1>3. /\ V!Draft \in V!Document /\ V!Draft.status = "draft" /\ V!Draft.reminded = {}
      /\ V!Draft.votes = V!NoVotes
  BY <1>2, HouseAssumption DEF V!Draft, V!Document
<1> QED BY <1>1, <1>2, <1>3

\* What the requests make of a ballot is a ballot.
LEMMA NewDocument ==
  ASSUME NEW d \in V!Document, clock \in 1 .. BallotHorizon
  PROVE  /\ [d EXCEPT !.status = "open"] \in V!Document /\ V!ClosedNow(d) \in V!Document
         /\ V!Shut(d) \in V!Document
         /\ \A v \in Voters, o \in Options, at \in 1 .. clock :
               d.status = "open" =>
                   V!Cast(d, v, o, at) \in V!Document /\ WriteKeeps(d, V!Cast(d, v, o, at))
         /\ V!ClosedNow(d).status = "closed" /\ V!ClosedNow(d).votes = d.votes
         /\ V!Shut(d).status = "closed" /\ V!Shut(d).votes = d.votes
<1>1. /\ V!Shut(d) \in V!Document /\ V!Shut(d).status = "closed" /\ V!Shut(d).votes = d.votes
      /\ V!Shut(d).closes = d.closes
  BY DEF V!Shut, V!Document
<1>2. /\ V!ClosedNow(d) \in V!Document /\ V!ClosedNow(d).status = "closed"
      /\ V!ClosedNow(d).votes = d.votes
  <2>1. (IF d.closes = 0 \/ d.closes > clock THEN clock ELSE d.closes) \in 0 .. BallotHorizon
    BY HouseAssumption DEF V!Document
  <2>2. V!ClosedNow(d) =
          [V!Shut(d) EXCEPT
              !.closes = IF d.closes = 0 \/ d.closes > clock THEN clock ELSE d.closes]
    BY <1>1 DEF V!ClosedNow
  <2> QED BY <1>1, <2>1, <2>2 DEF V!Document
<1>3. ASSUME NEW v \in Voters, NEW o \in Options, NEW at \in 1 .. clock, d.status = "open"
      PROVE  V!Cast(d, v, o, at) \in V!Document /\ WriteKeeps(d, V!Cast(d, v, o, at))
  <2>1. CASE V!TakesVotes(d, at)
    <3> DEFINE vote == [option |-> o, at |-> at]
               cast == [d EXCEPT !.votes[v] = vote]
    <3>1. vote \in [option : Options, at : 1 .. BallotHorizon] /\ vote.at = at
      BY HouseAssumption
    <3>2. d.votes \in V!Votes
      BY DEF V!Document
    <3> HIDE DEF vote
    <3>3. [d.votes EXCEPT ![v] = vote] \in V!Votes
      BY <3>1, <3>2 DEF V!Votes
    <3>4. /\ cast \in V!Document /\ cast.status = "open" /\ cast.closes = d.closes
          /\ cast.votes = [d.votes EXCEPT ![v] = vote]
      BY <3>3, <1>3 DEF V!Document
    <3>5. V!Cast(d, v, o, at) = cast
      BY <2>1 DEF V!Cast, vote
    <3> HIDE DEF cast
    <3>6. d.closes = 0 \/ at < d.closes
      BY <2>1, HouseAssumption DEF V!TakesVotes, V!Late, V!Document
    <3>7. \A w \in Voters : cast.votes[w] # d.votes[w] => cast.votes[w].at = at
      BY <3>1, <3>2, <3>4 DEF V!Votes
    <3> QED BY <1>3, <3>4, <3>5, <3>6, <3>7 DEF WriteKeeps
  <2>2. CASE ~V!TakesVotes(d, at)
    BY <2>2, <1>1, <1>3 DEF V!Cast, WriteKeeps
  <2> QED BY <2>1, <2>2
<1>4. [d EXCEPT !.status = "open"] \in V!Document
  BY DEF V!Document
<1> QED BY <1>1, <1>2, <1>3, <1>4

\* A request reads the ballot and prepares its copy.
LEMMA ReadInv ==
  ASSUME BallotInv, NEW r \in Requests, NEW new \in V!Document, V!Read(r, new),
         WriteKeeps(doc, new)
  PROVE  BallotInv'
<1>1. /\ ballotRequest' = [ballotRequest EXCEPT ![r] = [at |-> "write", read |-> doc, new |-> new]]
      /\ doc.status # "gone" /\ UNCHANGED <<doc, clock, attaching, worker, V!history>>
  BY DEF V!Read
<1>2. V!TypeOK'
  <2>1. [at |-> "write", read |-> doc, new |-> new]
          \in [at : {"idle", "write"}, read : V!Document, new : V!Document]
    BY DEF BallotInv, V!TypeOK
  <2> QED BY <1>1, <2>1 DEF BallotInv, V!TypeOK, V!history
<1>3. BallotWrites'
  BY <1>1 DEF BallotInv, V!TypeOK, BallotWrites
<1> QED BY <1>1, <1>2, <1>3
  DEF BallotInv, MarkWrites, Marked, Marking, Expiring, V!CountsTrue, V!RemindedOnce, V!history

\* The requests that open, close and vote.
LEMMA RequestsRead ==
  ASSUME BallotInv, NEW r \in Requests,
         \/ V!Open(r) \/ V!Close(r) \/ V!CloseExpired(r)
         \/ \E v \in Voters, o \in Options, at \in 1 .. clock : V!CastVote(r, v, o, at)
  PROVE  BallotInv'
<1>1. doc \in V!Document /\ clock \in 1 .. BallotHorizon
  BY DEF BallotInv, V!TypeOK
<1>2. CASE V!Open(r)
  <2> DEFINE new == [doc EXCEPT !.status = "open"]
  <2>1. new \in V!Document /\ V!Read(r, new)
    BY <1>1, <1>2, NewDocument DEF V!Open
  <2>2. WriteKeeps(doc, new)
    BY <1>1, <1>2 DEF WriteKeeps, V!Open, V!Openable, V!Document
  <2> QED BY <2>1, <2>2, ReadInv
<1>3. CASE V!Close(r)
  <2>1. V!ClosedNow(doc) \in V!Document /\ V!Read(r, V!ClosedNow(doc)) /\ doc.status # "gone"
    BY <1>1, <1>3, NewDocument DEF V!Close, V!Read
  <2>2. WriteKeeps(doc, V!ClosedNow(doc))
    BY <1>1, <2>1, NewDocument DEF WriteKeeps
  <2> QED BY <2>1, <2>2, ReadInv
<1>4. CASE V!CloseExpired(r)
  <2>1. V!Shut(doc) \in V!Document /\ V!Read(r, V!Shut(doc)) /\ doc.status # "gone"
    BY <1>1, <1>4, NewDocument DEF V!CloseExpired, V!Read
  <2>2. WriteKeeps(doc, V!Shut(doc))
    BY <1>1, <2>1, NewDocument DEF WriteKeeps
  <2> QED BY <2>1, <2>2, ReadInv
<1>5. ASSUME NEW v \in Voters, NEW o \in Options, NEW at \in 1 .. clock, V!CastVote(r, v, o, at)
      PROVE  BallotInv'
  <2>1. V!Cast(doc, v, o, at) \in V!Document /\ WriteKeeps(doc, V!Cast(doc, v, o, at))
    BY <1>1, <1>5, NewDocument DEF V!CastVote
  <2> QED BY <1>5, <2>1, ReadInv DEF V!CastVote
<1> QED BY <1>2, <1>3, <1>4, <1>5

\* A copy replaces the row.
LEMMA WriteInv == ASSUME BallotInv, NEW r \in Requests, V!Write(r) PROVE BallotInv'
<1> DEFINE new == ballotRequest[r].new
           read == ballotRequest[r].read
<1>1. /\ new \in V!Document /\ read \in V!Document /\ WriteKeeps(read, new)
      /\ doc' = new /\ mailed' = mailed \ (doc.reminded \ new.reminded)
      /\ late' = (late \/ doc # read)
      /\ ballotRequest' = [ballotRequest EXCEPT ![r] = V!Quiet]
      /\ acked' = [v \in Voters |-> IF new.votes[v] # read.votes[v] THEN new.votes[v] ELSE acked[v]]
      /\ UNCHANGED <<clock, attaching, worker, issued, twice>>
  BY DEF BallotInv, V!TypeOK, BallotWrites, V!Write, V!Replace
<1>2. new.votes \in V!Votes /\ acked \in V!Votes /\ new.reminded \subseteq Voters
  BY <1>1 DEF BallotInv, V!TypeOK, V!Document
<1> HIDE DEF new, read
<1>3. V!TypeOK'
  <2>1. V!Quiet \in [at : {"idle", "write"}, read : V!Document, new : V!Document]
    BY Documents DEF V!Quiet
  <2>2. acked' \in V!Votes /\ late' \in BOOLEAN
    BY <1>1, <1>2 DEF V!Votes, BallotInv, V!TypeOK
  <2> QED BY <1>1, <2>1, <2>2 DEF BallotInv, V!TypeOK
<1>4. BallotWrites'
  BY <1>1 DEF BallotInv, V!TypeOK, BallotWrites, V!Quiet
<1>5. MarkWrites' /\ V!RemindedOnce'
  BY <1>1 DEF BallotInv, MarkWrites, V!RemindedOnce
<1>6. Marked'
  BY <1>1 DEF BallotInv, Marked, Marking
<1>7. V!CountsTrue'
  <2> SUFFICES ASSUME ~late' PROVE V!CountsTrue'
    BY DEF V!CountsTrue
  <2>1. ~late /\ doc = read /\ doc.status # "gone"
    BY <1>1 DEF WriteKeeps
  <2>2. /\ doc.votes = acked
        /\ \A p \in issued :
              /\ p.status = "closed" => doc.status = "closed" /\ doc.votes = p.votes
              /\ doc.status \in {"open", "closed"}
              /\ \A v \in Voters : doc.votes[v] # p.votes[v] => doc.votes[v].at < p.closes
    BY <2>1 DEF BallotInv, V!CountsTrue
  <2>3. acked' = new.votes
    BY <1>1, <1>2, <2>1, <2>2 DEF V!Votes
  <2>4. ASSUME NEW p \in issued
        PROVE  /\ p.status = "closed" => doc'.status = "closed" /\ doc'.votes = p.votes
               /\ doc'.status \in {"open", "closed"}
               /\ \A v \in Voters : doc'.votes[v] # p.votes[v] => doc'.votes[v].at < p.closes
    <3>1. CASE doc.status = "closed"
      BY <1>1, <2>1, <2>2, <3>1 DEF WriteKeeps
    <3>2. CASE doc.status = "open"
      <4>1. p.status = "open" /\ p.closes # 0 /\ doc.closes = p.closes
        <5>1. p.status \in {"open", "closed"}
          BY DEF BallotInv, V!TypeOK, V!Protocols
        <5> QED BY <2>1, <2>2, <3>2, <5>1 DEF BallotInv, Expiring
      <4> QED BY <1>1, <2>1, <2>2, <3>2, <4>1 DEF WriteKeeps
    <3> QED BY <2>2, <3>1, <3>2
  <2> QED BY <1>1, <2>3, <2>4 DEF V!CountsTrue
<1>8. Expiring'
  BY <1>1 DEF BallotInv, Expiring, WriteKeeps, V!CountsTrue
<1> QED BY <1>3, <1>4, <1>5, <1>6, <1>7, <1>8 DEF BallotInv

\* A ballot without its attachments is deleted, whatever has happened to it.
LEMMA AttachmentsInv == ASSUME BallotInv, V!AttachmentsFail PROVE BallotInv'
<1>1. /\ doc' = V!Gone /\ mailed' = mailed \ (doc.reminded \ V!Gone.reminded)
      /\ late' = (late \/ doc # V!Draft) /\ attaching' = FALSE
      /\ UNCHANGED <<clock, ballotRequest, worker, acked, issued, twice>>
  BY DEF V!AttachmentsFail, V!Replace
<1>2. V!TypeOK'
  BY <1>1, Documents DEF BallotInv, V!TypeOK
<1>3. V!CountsTrue' /\ Expiring'
  BY <1>1, Documents DEF BallotInv, V!CountsTrue, Expiring
<1>4. Marked'
  BY <1>1 DEF BallotInv, Marked, Marking
<1> QED BY <1>1, <1>2, <1>3, <1>4 DEF BallotInv, BallotWrites, MarkWrites, V!RemindedOnce

Working == [at : {"idle", "mail", "mark", "write"}, to : SUBSET Voters,
            read : V!Document, new : V!Document]

\* The reminder worker.
LEMMA WorkerInv ==
  ASSUME BallotInv,
         \/ V!List \/ (\E sent \in SUBSET Voters : V!Mail(sent))
         \/ V!MarkReminderSent \/ V!WriteMark \/ V!MarkFails
  PROVE  BallotInv'
<1>0. /\ worker \in Working /\ V!Asleep \in Working /\ V!Asleep.at = "idle" /\ doc \in V!Document
      /\ mailed \subseteq Voters /\ doc.reminded \subseteq Voters
  BY Documents DEF BallotInv, V!TypeOK, Working, V!Asleep, V!Document
<1>1. CASE V!List
  <2> DEFINE w == [V!Asleep EXCEPT !.at = "mail", !.to = V!Recipients(doc)]
  <2>1. /\ worker' = w /\ worker.at = "idle"
        /\ UNCHANGED <<doc, clock, ballotRequest, attaching, V!history>>
    BY <1>1 DEF V!List
  <2>2. V!Recipients(doc) \subseteq Voters /\ V!Recipients(doc) \cap doc.reminded = {}
    BY DEF V!Recipients
  <2>3. w \in Working /\ w.at = "mail" /\ w.to = V!Recipients(doc)
    BY <1>0, <2>2 DEF Working
  <2> HIDE DEF w
  <2>4. V!TypeOK'
    BY <2>1, <2>3 DEF BallotInv, V!TypeOK, Working, V!history
  <2>5. Marked'
    BY <2>1, <2>2, <2>3 DEF BallotInv, Marked, Marking, V!history
  <2> QED BY <2>1, <2>3, <2>4, <2>5
    DEF BallotInv, BallotWrites, MarkWrites, Expiring, V!CountsTrue, V!RemindedOnce, V!history
<1>2. ASSUME NEW sent \in SUBSET Voters, V!Mail(sent) PROVE BallotInv'
  <2> DEFINE w == IF sent = {} THEN V!Asleep ELSE [V!Asleep EXCEPT !.at = "mark", !.to = sent]
  <2>1. /\ worker.at = "mail" /\ sent \subseteq worker.to /\ worker' = w /\ mailed' = mailed \cup sent
        /\ twice' = twice \cup (mailed \cap sent)
        /\ UNCHANGED <<doc, clock, ballotRequest, attaching, acked, issued, late>>
    BY <1>2 DEF V!Mail
  <2>2. /\ w \in Working /\ w.at \in {"idle", "mark"}
        /\ w.at = "mark" => w.to = sent
        /\ w.at = "idle" => sent = {}
    BY <1>0 DEF Working
  <2> HIDE DEF w
  <2>3. mailed \cap sent = {} /\ twice = {} /\ mailed \subseteq doc.reminded
    BY <2>1 DEF BallotInv, Marked, Marking, V!RemindedOnce
  <2>4. V!TypeOK'
    BY <2>1, <2>2 DEF BallotInv, V!TypeOK, Working
  <2>5. Marked'
    BY <2>1, <2>2, <2>3 DEF Marked, Marking
  <2> QED BY <2>1, <2>2, <2>3, <2>4, <2>5
    DEF BallotInv, BallotWrites, MarkWrites, Expiring, V!CountsTrue, V!RemindedOnce
<1>3. CASE V!MarkReminderSent
  <2> DEFINE new == [doc EXCEPT !.reminded = @ \cup worker.to]
             w == [worker EXCEPT !.at = "write", !.read = doc, !.new = new]
  <2>1. /\ worker' = w /\ worker.at = "mark" /\ doc.status # "gone"
        /\ UNCHANGED <<doc, clock, ballotRequest, attaching, V!history>>
    BY <1>3 DEF V!MarkReminderSent
  <2>2. /\ new \in V!Document /\ new.status = doc.status /\ new.votes = doc.votes
        /\ new.closes = doc.closes /\ worker.to \subseteq new.reminded
    BY <1>0 DEF Working, V!Document
  <2> HIDE DEF new
  <2>3. w \in Working /\ w.at = "write" /\ w.to = worker.to /\ w.read = doc /\ w.new = new
    BY <1>0, <2>2 DEF Working
  <2> HIDE DEF w
  <2>4. V!TypeOK'
    BY <2>1, <2>3 DEF BallotInv, V!TypeOK, Working, V!history
  <2>5. Marked'
    BY <2>1, <2>3 DEF BallotInv, Marked, Marking, V!history
  <2>6. MarkWrites'
    BY <2>1, <2>2, <2>3 DEF MarkWrites
  <2> QED BY <2>1, <2>4, <2>5, <2>6
    DEF BallotInv, BallotWrites, Expiring, V!CountsTrue, V!RemindedOnce, V!history
<1>4. CASE V!WriteMark
  <2>1. /\ worker.at = "write" /\ worker.read.status # "gone"
        /\ worker.new.status = worker.read.status /\ worker.new.votes = worker.read.votes
        /\ worker.new.closes = worker.read.closes /\ worker.to \subseteq worker.new.reminded
    BY <1>4 DEF V!WriteMark, BallotInv, MarkWrites
  <2>2. /\ doc' = worker.new /\ mailed' = mailed \ (doc.reminded \ worker.new.reminded)
        /\ late' = (late \/ doc # worker.read) /\ worker' = V!Asleep
        /\ UNCHANGED <<clock, ballotRequest, attaching, acked, issued, twice>>
    BY <1>4 DEF V!WriteMark, V!Replace
  <2>3. V!TypeOK'
    BY <1>0, <2>2 DEF BallotInv, V!TypeOK, Working
  <2>4. Marked'
    BY <1>0, <2>1, <2>2 DEF BallotInv, Marked, Marking
  <2>5. V!CountsTrue' /\ Expiring'
    <3> SUFFICES ASSUME ~late' PROVE V!CountsTrue' /\ Expiring'
      BY DEF V!CountsTrue, Expiring
    <3>1. /\ ~late /\ doc'.status = doc.status /\ doc'.votes = doc.votes
          /\ doc'.closes = doc.closes
      BY <2>1, <2>2
    <3>2. V!CountsTrue'
      BY <2>2, <3>1 DEF BallotInv, V!CountsTrue
    <3>3. Expiring'
      BY <2>2, <3>1 DEF BallotInv, Expiring
    <3> QED BY <3>2, <3>3
  <2> QED BY <1>0, <2>2, <2>3, <2>4, <2>5 DEF BallotInv, BallotWrites, MarkWrites, V!RemindedOnce
<1>5. CASE V!MarkFails
  <2>1. /\ worker.at \in {"mark", "write"} /\ worker' = V!Asleep /\ mailed' = mailed \ worker.to
        /\ UNCHANGED <<doc, clock, ballotRequest, attaching, acked, issued, twice, late>>
    BY <1>5 DEF V!MarkFails
  <2>2. V!TypeOK'
    BY <1>0, <2>1 DEF BallotInv, V!TypeOK, Working
  <2>3. Marked'
    BY <1>0, <2>1 DEF BallotInv, Marked, Marking
  <2> QED BY <1>0, <2>1, <2>2, <2>3
    DEF BallotInv, BallotWrites, MarkWrites, Expiring, V!CountsTrue, V!RemindedOnce
<1> QED BY <1>1, <1>2, <1>3, <1>4, <1>5

\* A new ballot has no votes, no protocol and no reminders.
LEMMA BallotInit == V!Init => BallotInv
<1> SUFFICES ASSUME V!Init PROVE BallotInv
  OBVIOUS
<1>1. V!Quiet \in [at : {"idle", "write"}, read : V!Document, new : V!Document] /\ V!Quiet.at = "idle"
  BY Documents DEF V!Quiet
<1>2. V!Asleep \in Working /\ V!Asleep.at = "idle"
  BY Documents DEF Working, V!Asleep
<1>3. V!TypeOK
  <2>1. ballotRequest \in [Requests -> [at : {"idle", "write"}, read : V!Document, new : V!Document]]
    BY <1>1 DEF V!Init
  <2>2. clock \in 1 .. BallotHorizon
    <3>1. clock = 1
      BY DEF V!Init
    <3> QED BY <3>1, HouseAssumption
  <2>6. late \in BOOLEAN
    BY DEF V!Init
  <2>5. issued \in {{}} \cup {{p} : p \in V!Protocols}
    BY Zenon DEF V!Init
  <2>3. /\ doc \in V!Document /\ attaching \in BOOLEAN /\ acked \in V!Votes /\ mailed \subseteq Voters
        /\ twice \subseteq Voters
    BY Documents DEF V!Init
  <2>4. worker \in Working
    BY <1>2 DEF V!Init
  <2> QED BY <2>1, <2>2, <2>3, <2>4, <2>5, <2>6 DEF V!TypeOK, Working
<1>4. BallotWrites /\ MarkWrites /\ Marked /\ Expiring /\ V!CountsTrue /\ V!RemindedOnce
  BY <1>1, <1>2, Documents
    DEF V!Init, BallotWrites, MarkWrites, Marked, Marking, Expiring, V!CountsTrue, V!RemindedOnce
<1> QED BY <1>3, <1>4 DEF BallotInv

\* Every step of the ballot keeps its invariant.
LEMMA BallotNext == BallotInv /\ [V!Next]_votes => BallotInv'
<1> SUFFICES ASSUME BallotInv, [V!Next]_votes PROVE BallotInv'
  OBVIOUS
<1>1. ASSUME NEW r \in Requests, V!Fail(r) PROVE BallotInv'
  <2>1. /\ V!Quiet \in [at : {"idle", "write"}, read : V!Document, new : V!Document]
        /\ V!Quiet.at = "idle"
    BY Documents DEF V!Quiet
  <2>2. /\ ballotRequest' = [ballotRequest EXCEPT ![r] = V!Quiet]
        /\ UNCHANGED <<doc, clock, attaching, worker, V!history>>
    BY <1>1 DEF V!Fail
  <2>3. ballotRequest' \in [Requests -> [at : {"idle", "write"}, read : V!Document, new : V!Document]]
    BY <2>1, <2>2 DEF BallotInv, V!TypeOK
  <2>4. V!TypeOK'
    BY <2>2, <2>3 DEF BallotInv, V!TypeOK, V!history
  <2>5. BallotWrites'
    BY <2>1, <2>2 DEF BallotInv, V!TypeOK, BallotWrites
  <2> QED BY <2>2, <2>4, <2>5
    DEF BallotInv, MarkWrites, Marked, Marking, Expiring, V!CountsTrue, V!RemindedOnce, V!history
<1>2. CASE V!Attached \/ V!Tick \/ UNCHANGED votes
  <2>1. UNCHANGED <<doc, ballotRequest, worker, V!history>>
    BY <1>2 DEF V!Attached, V!Tick, votes, V!history
  <2>2. attaching' \in BOOLEAN
    BY <1>2 DEF V!Attached, V!Tick, votes, BallotInv, V!TypeOK
  <2>3. clock' \in 1 .. BallotHorizon
    BY <1>2, HouseAssumption DEF V!Attached, V!Tick, votes, BallotInv, V!TypeOK
  <2> QED BY <2>1, <2>2, <2>3
    DEF BallotInv, V!TypeOK, BallotWrites, MarkWrites, Marked, Marking, Expiring,
        V!CountsTrue, V!RemindedOnce, V!history
<1>3. CASE V!Protocol
  <2> DEFINE p == [status |-> doc.status, votes |-> doc.votes, closes |-> doc.closes]
  <2>1. /\ issued' = {p} /\ doc.status \in {"open", "closed"}
        /\ doc.status = "open" => doc.closes # 0
        /\ UNCHANGED <<doc, clock, ballotRequest, attaching, worker, acked, mailed, twice, late>>
    BY <1>3 DEF V!Protocol, V!ShownClosed, V!Expirable, V!Late
  <2>2. p \in V!Protocols
    BY <2>1 DEF BallotInv, V!TypeOK, V!Document, V!Protocols
  <2>3. p.status = doc.status /\ p.votes = doc.votes /\ p.closes = doc.closes
    OBVIOUS
  <2> HIDE DEF p
  <2>4. V!TypeOK'
    BY <2>1, <2>2 DEF BallotInv, V!TypeOK
  <2>5. V!CountsTrue' /\ Expiring'
    BY <2>1, <2>3 DEF BallotInv, V!CountsTrue, Expiring
  <2> QED BY <2>1, <2>4, <2>5
    DEF BallotInv, BallotWrites, MarkWrites, Marked, Marking, V!RemindedOnce
<1> QED BY <1>1, <1>2, <1>3, RequestsRead, WriteInv, AttachmentsInv, WorkerInv DEF V!Next
-------------------------------------------------------------------------------
(* The energy data.                                                         *)

\* A reset is alone behind the lock, and who needs a claim has one.
Locked ==
    \A r \in Requests :
        /\ E!Holds(r) /\ energyRequest[r].kind \in E!Resets => \A s \in Requests \ {r} : ~E!Holds(s)
        /\ energyRequest[r].at = "erased" => energyRequest[r].kind = "profile"
Claimed ==
    \A r \in Requests :
        energyRequest[r].at = "in" /\ energyRequest[r].kind \in E!NeedClaim => profile = "claimed"

\* A step of the sampler took a sensor and a time that has passed; after a
\* deletion it is known to be late.
Ticking ==
    tick.at = "read" =>
        /\ tick.entity \in Entities /\ tick.now < now
        /\ profile = "unclaimed" /\ ~onboarding => tick.late

\* The samples of the buffer are readings of its sensor.
Buffered == \A s \in buffer.samples : <<s, buffer.entity>> \in seen

\* The invariant of the energy data.
EnergyInv == /\ E!TypeOK /\ Locked /\ Claimed /\ Ticking /\ Buffered /\ E!NothingRevived
             /\ E!QuarterObserved

\* A number of sampling steps rounds down to a quarter, and quarters follow
\* one another.
LEMMA QuarterBegins ==
  ASSUME NEW a \in Nat
  PROVE  a \div Quarter \in Nat /\ (a \div Quarter) * Quarter <= a /\ a \div Quarter <= a
BY HouseAssumption
LEMMA QuarterEnds ==
  ASSUME NEW a \in Nat, NEW b \in Nat, a < b
  PROVE  a * Quarter + Quarter <= b * Quarter
BY HouseAssumption

\* More observed steps leave a quarter complete.
LEMMA CompleteMore ==
  ASSUME NEW q \in Nat, NEW B \in SUBSET E!Steps(q), NEW A \in SUBSET B, E!Complete(A)
  PROVE  E!Complete(B)
<1>1. q * Quarter \in Int /\ q * Quarter + Quarter - 1 \in Int
  BY HouseAssumption
<1>2. IsFiniteSet(E!Steps(q))
  BY <1>1, FS_Interval DEF E!Steps
<1>3. IsFiniteSet(B) /\ IsFiniteSet(A)
  BY <1>2, FS_Subset
<1>4. Cardinality(A) \in Nat /\ Cardinality(B) \in Nat /\ Cardinality(A) <= Cardinality(B)
  BY <1>3, FS_Subset, FS_CardinalityType
<1>5. Quarter \in Nat
  BY HouseAssumption
<1>6. E!Cardinality(A) = Cardinality(A) /\ E!Cardinality(B) = Cardinality(B)
  BY DEF Cardinality, E!Cardinality
<1>7. 10 * Cardinality(A) >= 9 * Quarter
  BY <1>6 DEF E!Complete
<1>8. 10 * Cardinality(B) >= 9 * Quarter
  BY <1>4, <1>5, <1>7
<1> QED BY <1>6, <1>8 DEF E!Complete

\* Where a reading of entity e covers a step of quarter q.
Watched(q, e, S) == {t \in E!Steps(q) : \E s \in 0 .. t : <<s, e>> \in S /\ t < s + Hold}

\* What was observed stays observed.
LEMMA ObservedLater ==
  ASSUME EnergyInv, intervals' \subseteq intervals, seen \subseteq seen', now' \in Nat, now <= now'
  PROVE  E!QuarterObserved'
<1> SUFFICES ASSUME NEW i \in intervals
             PROVE  /\ i.quarter * Quarter + Quarter <= now'
                    /\ i.value => E!Complete(Watched(i.quarter, i.entity, seen'))
  BY DEF E!QuarterObserved, Watched, E!Complete, E!Steps
<1>1. i.quarter \in Nat /\ now \in Nat
  BY HouseAssumption DEF EnergyInv, E!TypeOK, E!Row
<1>2. /\ i.quarter * Quarter + Quarter <= now
      /\ i.value => E!Complete(Watched(i.quarter, i.entity, seen))
  BY DEF EnergyInv, E!QuarterObserved, Watched
<1>3. Watched(i.quarter, i.entity, seen) \subseteq Watched(i.quarter, i.entity, seen')
  BY DEF Watched
<1>4. Watched(i.quarter, i.entity, seen') \in SUBSET E!Steps(i.quarter)
  BY DEF Watched
<1>5. i.value => E!Complete(Watched(i.quarter, i.entity, seen'))
  BY <1>1, <1>2, <1>3, <1>4, CompleteMore
<1>6. i.quarter * Quarter + Quarter \in Nat
  BY <1>1, HouseAssumption
<1> QED BY <1>1, <1>2, <1>5, <1>6

Asking == [at : {"idle", "in", "erased"}, kind : E!Kinds]
Taking == [at : {"idle", "read"}, entity : Entities \cup {None},
           now : 0 .. EnergyHorizon, late : BOOLEAN]
Keeping == [entity : Entities \cup {None}, start : 0 .. EnergyHorizon,
            samples : SUBSET (0 .. EnergyHorizon)]

\* A request, a sampling step and a buffer at rest.
LEMMA Resting == /\ E!Idle \in Asking /\ E!Idle.at = "idle" /\ E!NoTick \in Taking
                 /\ E!NoTick.at = "idle"
                 /\ E!Empty \in Keeping /\ E!Empty.samples = {} /\ E!Empty.entity = None
                 /\ E!Empty.start = 0
<1>1. 0 \in 0 .. EnergyHorizon
  BY HouseAssumption
<1>2. E!Idle \in Asking /\ E!Idle.at = "idle"
  BY DEF E!Idle, Asking, E!Kinds
<1>3. E!NoTick \in Taking /\ E!NoTick.at = "idle"
  BY <1>1 DEF E!NoTick, Taking
<1>4. E!Empty \in Keeping /\ E!Empty.samples = {} /\ E!Empty.entity = None /\ E!Empty.start = 0
  BY <1>1 DEF E!Empty, Keeping
<1> QED BY <1>2, <1>3, <1>4

\* A request comes behind the lock.
LEMMA EnterInv ==
  ASSUME EnergyInv, NEW r \in Requests, NEW kind \in E!Kinds, E!Enter(r, kind)
  PROVE  EnergyInv'
<1> DEFINE q == [at |-> "in", kind |-> kind]
<1>1. /\ energyRequest[r].at = "idle" /\ E!Free(r, kind)
      /\ kind \in E!NeedClaim => profile = "claimed"
      /\ energyRequest' = [energyRequest EXCEPT ![r] = q]
      /\ UNCHANGED <<profile, mapping, imports, intervals, onboarding, chart,
                     tick, buffer, now, seen>>
  BY DEF E!Enter, E!data
<1>2. q \in Asking /\ q.at = "in" /\ q.kind = kind /\ energyRequest \in [Requests -> Asking]
  BY DEF Asking, EnergyInv, E!TypeOK
<1> HIDE DEF q
<1>3. /\ energyRequest' \in [Requests -> Asking] /\ energyRequest'[r] = q
      /\ \A s \in Requests \ {r} : energyRequest'[s] = energyRequest[s]
  BY <1>1, <1>2
<1>4. E!TypeOK'
  BY <1>1, <1>3 DEF EnergyInv, E!TypeOK, Asking
<1>5. Locked'
  BY <1>1, <1>2, <1>3 DEF EnergyInv, Locked, E!Free, E!Holds
<1>6. Claimed'
  BY <1>1, <1>2, <1>3 DEF EnergyInv, Claimed
<1>7. E!NothingRevived'
  BY <1>1, <1>2, <1>3 DEF EnergyInv, E!NothingRevived
<1> QED BY <1>1, <1>4, <1>5, <1>6, <1>7
  DEF EnergyInv, Ticking, Buffered, E!QuarterObserved, E!Complete, E!Steps

\* A request leaves the lock: it returns, onboards, deletes the history or
\* clears the chart.
LEMMA LeaveKeeps ==
  ASSUME EnergyInv, NEW r \in Requests, energyRequest' = [energyRequest EXCEPT ![r] = E!Idle],
         profile' = profile \/ profile' = "claimed"
  PROVE  energyRequest' \in [Requests -> Asking] /\ Locked' /\ Claimed'
<1>1. energyRequest \in [Requests -> Asking]
  BY DEF EnergyInv, E!TypeOK, Asking
<1>2. /\ energyRequest' \in [Requests -> Asking] /\ energyRequest'[r] = E!Idle
      /\ \A s \in Requests \ {r} : energyRequest'[s] = energyRequest[s]
  BY <1>1, Resting
<1>3. Locked'
  BY <1>2, Resting DEF EnergyInv, Locked, E!Holds
<1>4. Claimed'
  BY <1>2, Resting DEF EnergyInv, Claimed
<1> QED BY <1>2, <1>3, <1>4

\* The ways out of the lock.
LEMMA LeavingInv ==
  ASSUME EnergyInv, NEW r \in Requests,
         E!Leave(r) \/ E!Onboard(r) \/ E!DeleteMeasurementData(r) \/ E!ClearChart(r)
  PROVE  EnergyInv'
<1>1. /\ energyRequest' = [energyRequest EXCEPT ![r] = E!Idle]
      /\ UNCHANGED <<tick, buffer, now, seen>>
      /\ profile' = profile \/ profile' = "claimed"
  BY DEF E!Leave, E!Onboard, E!DeleteMeasurementData, E!ClearChart, E!data
<1>2. energyRequest' \in [Requests -> Asking] /\ Locked' /\ Claimed'
  BY <1>1, LeaveKeeps
<1>3. now \in Nat /\ intervals' \subseteq intervals /\ now' = now
  BY <1>1, HouseAssumption
    DEF EnergyInv, E!TypeOK, E!Leave, E!Onboard, E!DeleteMeasurementData, E!ClearChart, E!data
<1>4. E!QuarterObserved'
  BY <1>1, <1>3, ObservedLater
<1>5. /\ profile' \in {"unclaimed", "claimed"} /\ mapping' \in Entities \cup {None}
      /\ imports' \in BOOLEAN /\ chart' \in BOOLEAN /\ onboarding' \in BOOLEAN
      /\ intervals' \subseteq E!Row
  BY DEF EnergyInv, E!TypeOK, E!Leave, E!Onboard, E!DeleteMeasurementData, E!ClearChart, E!data
<1>6. E!TypeOK'
  BY <1>1, <1>2, <1>5 DEF EnergyInv, E!TypeOK, Asking
<1>7. Ticking' /\ Buffered'
  BY <1>1
    DEF EnergyInv, Ticking, Buffered, E!Leave, E!Onboard, E!DeleteMeasurementData, E!ClearChart,
        E!data
<1>8. E!NothingRevived'
  <2>1. energyRequest \in [Requests -> Asking]
    BY DEF EnergyInv, E!TypeOK, Asking
  <2>2. CASE E!Onboard(r)
    BY <2>2 DEF E!Onboard, E!NothingRevived
  <2>3. CASE E!ClearChart(r)
    BY <2>3 DEF E!ClearChart, E!NothingRevived, E!data, EnergyInv
  <2>4. CASE E!Leave(r) \/ E!DeleteMeasurementData(r)
    <3>1. energyRequest[r].at = "in" /\ UNCHANGED <<profile, mapping, onboarding, chart>>
      BY <2>4 DEF E!Leave, E!DeleteMeasurementData, E!In, E!data
    <3>2. \A s \in Requests : energyRequest'[s].at # "erased" => energyRequest[s].at # "erased"
      BY <1>1, <2>1, <3>1
    <3>3. imports' => imports
      BY <2>4 DEF E!Leave, E!DeleteMeasurementData, E!data
    <3> QED BY <1>3, <3>1, <3>2, <3>3 DEF E!NothingRevived, EnergyInv
  <2> QED BY <2>2, <2>3, <2>4
<1> QED BY <1>2, <1>4, <1>6, <1>7, <1>8 DEF EnergyInv

\* A request writes behind the lock, or the chart cache forgets.
LEMMA WritingInv ==
  ASSUME EnergyInv,
         \/ E!Prune
         \/ \E r \in Requests :
               E!Import(r) \/ E!Chart(r) \/ \E e \in Entities \cup {None} : E!Map(r, e)
  PROVE  EnergyInv'
<1>1. UNCHANGED <<profile, intervals, energyRequest, tick, buffer, now, seen>>
  BY DEF E!Prune, E!Import, E!Chart, E!Map, E!data
<1>2. /\ mapping' \in Entities \cup {None} /\ imports' \in BOOLEAN /\ chart' \in BOOLEAN
      /\ onboarding' \in BOOLEAN
  BY DEF EnergyInv, E!TypeOK, E!Prune, E!Import, E!Chart, E!Map, E!data
<1>3. E!TypeOK'
  BY <1>1, <1>2 DEF EnergyInv, E!TypeOK
<1>4. Ticking'
  BY <1>1 DEF EnergyInv, Ticking, E!Prune, E!Import, E!Chart, E!Map, E!data
<1>5. E!NothingRevived'
  <2> SUFFICES ASSUME profile = "unclaimed", ~onboarding'
               PROVE  /\ UNCHANGED <<mapping, imports, onboarding>> /\ (chart' => chart)
    BY <1>1 DEF EnergyInv, E!NothingRevived
  <2>1. \A r \in Requests : ~E!In(r, "import") /\ ~E!In(r, "map")
    BY DEF EnergyInv, Claimed, E!In, E!NeedClaim
  <2> QED BY <2>1 DEF E!Prune, E!Import, E!Chart, E!Map, E!data
<1> QED BY <1>1, <1>3, <1>4, <1>5
  DEF EnergyInv, Locked, Claimed, E!Holds, Buffered, E!QuarterObserved, E!Complete, E!Steps

\* The deletion is alone behind the lock.
LEMMA DeleteInv == ASSUME EnergyInv, NEW r \in Requests, E!DeleteProfile(r) PROVE EnergyInv'
<1>1. /\ energyRequest[r] = [at |-> "in", kind |-> "profile"]
      /\ profile' = "unclaimed" /\ mapping' = None /\ imports' = FALSE /\ intervals' = {}
      /\ onboarding' = FALSE
      /\ energyRequest' = [energyRequest EXCEPT ![r].at = "erased"]
      /\ tick' = [tick EXCEPT !.late = tick.at = "read"]
      /\ UNCHANGED <<chart, buffer, now, seen>>
  BY DEF E!DeleteProfile, E!In
<1>2. energyRequest \in [Requests -> Asking] /\ tick \in Taking
  BY DEF EnergyInv, E!TypeOK, Asking, Taking
<1>3. PICK q \in Asking : q.at = "erased" /\ q.kind = "profile" /\ energyRequest'[r] = q
  BY <1>1, <1>2 DEF Asking
<1>4. /\ energyRequest' \in [Requests -> Asking]
      /\ \A s \in Requests \ {r} : energyRequest'[s] = energyRequest[s]
  BY <1>1, <1>2, <1>3
<1>5. PICK t \in Taking : /\ tick' = t /\ t.at = tick.at /\ t.entity = tick.entity /\ t.now = tick.now
                          /\ (tick.at = "read" => t.late)
  <2>1. PICK b \in BOOLEAN : b <=> tick.at = "read"
    OBVIOUS
  <2>2. tick' = [tick EXCEPT !.late = b]
    BY <1>1, <2>1
  <2> QED BY <1>2, <2>1, <2>2 DEF Taking
<1>6. \A s \in Requests \ {r} : ~E!Holds(s)
  BY <1>1 DEF EnergyInv, Locked, E!Holds, E!Resets
<1>7. E!TypeOK'
  BY <1>1, <1>4, <1>5 DEF EnergyInv, E!TypeOK, Asking, Taking
<1>8. Locked' /\ Claimed'
  BY <1>1, <1>3, <1>4, <1>6 DEF Locked, Claimed, E!Holds
<1>9. Ticking' /\ Buffered'
  BY <1>1, <1>5 DEF EnergyInv, Ticking, Buffered
<1>10. E!NothingRevived' /\ E!QuarterObserved'
  BY <1>1, <1>3 DEF E!NothingRevived, E!QuarterObserved
<1> QED BY <1>7, <1>8, <1>9, <1>10 DEF EnergyInv

\* Time passes, the sampler takes its mapping, the process stops.
LEMMA PassingInv ==
  ASSUME EnergyInv, E!Sample \/ E!Tock \/ E!Crash \/ UNCHANGED energy
  PROVE  EnergyInv'
<1>1. UNCHANGED <<profile, mapping, imports, intervals, onboarding, seen>>
  BY DEF E!Sample, E!Tock, E!Crash, energy, E!data
<1>2. now \in 0 .. EnergyHorizon /\ now' \in 0 .. EnergyHorizon /\ now <= now' /\ now' \in Nat
  BY HouseAssumption DEF E!Sample, E!Tock, E!Crash, energy, EnergyInv, E!TypeOK
<1>3. E!QuarterObserved'
  BY <1>1, <1>2, ObservedLater
<1>4. energyRequest' \in [Requests -> Asking] /\ Locked' /\ Claimed' /\ E!NothingRevived'
  <2>1. CASE E!Crash
    <3>1. energyRequest' = [r \in Requests |-> E!Idle] /\ chart' = FALSE
      BY <2>1 DEF E!Crash
    <3> QED BY <1>1, <3>1, Resting DEF EnergyInv, Locked, Claimed, E!Holds, E!NothingRevived
  <2>2. CASE E!Sample \/ E!Tock \/ UNCHANGED energy
    <3>1. UNCHANGED <<energyRequest, chart>>
      BY <2>2 DEF E!Sample, E!Tock, energy
    <3> QED BY <1>1, <3>1
      DEF EnergyInv, E!TypeOK, Asking, Locked, Claimed, E!Holds, E!NothingRevived
  <2> QED BY <2>1, <2>2
<1>5. tick' \in Taking /\ buffer' \in Keeping /\ Ticking' /\ Buffered' /\ chart' \in BOOLEAN
  <2>1. tick \in Taking /\ buffer \in Keeping /\ chart \in BOOLEAN
    BY DEF EnergyInv, E!TypeOK, Taking, Keeping
  <2>2. CASE E!Crash
    BY <2>2, Resting DEF E!Crash, Ticking, Buffered
  <2>3. CASE E!Tock \/ UNCHANGED energy
    <3>1. UNCHANGED <<tick, buffer, chart>>
      BY <2>3 DEF E!Tock, energy
    <3>2. tick.at = "read" => tick.now < now'
      BY <1>2, <2>1 DEF EnergyInv, Ticking, Taking
    <3> QED BY <1>1, <2>1, <3>1, <3>2 DEF EnergyInv, Ticking, Buffered
  <2>4. CASE E!Sample /\ mapping = None
    <3>1. tick.at = "idle" /\ buffer' = E!Empty /\ UNCHANGED <<tick, chart>>
      BY <2>4 DEF E!Sample
    <3> QED BY <2>1, <3>1, Resting DEF Ticking, Buffered
  <2>5. CASE E!Sample /\ mapping # None
    <3>1. /\ tick' = [at |-> "read", entity |-> mapping, now |-> now, late |-> FALSE]
          /\ now' = now + 1 /\ UNCHANGED <<buffer, chart>>
      BY <2>5 DEF E!Sample
    <3>2. mapping \in Entities /\ ~(profile = "unclaimed" /\ ~onboarding)
      BY <2>5 DEF EnergyInv, E!TypeOK, E!NothingRevived
    <3>3. tick' \in Taking /\ tick'.entity = mapping /\ tick'.now = now
      BY <1>2, <3>1, <3>2 DEF Taking
    <3> QED BY <1>1, <1>2, <2>1, <3>1, <3>2, <3>3 DEF EnergyInv, Ticking, Buffered
  <2> QED BY <2>2, <2>3, <2>4, <2>5
<1>6. E!TypeOK'
  BY <1>1, <1>2, <1>4, <1>5 DEF EnergyInv, E!TypeOK, Asking, Taking, Keeping
<1> QED BY <1>3, <1>4, <1>5, <1>6 DEF EnergyInv

\* The answer of a sampling step: the buffer goes on with the sensor's
\* samples, and the quarter that is over has been watched.
LEMMA FinishInv ==
  ASSUME EnergyInv, NEW usable \in BOOLEAN, NEW stored \in BOOLEAN, E!Finish(usable, stored)
  PROVE  EnergyInv'
<1> DEFINE q == tick.now \div Quarter
           b == E!BufferFor(tick.entity, q)
           kept == IF q > b.start THEN E!CarryForward(b.samples, q) ELSE b.samples
           next == [b EXCEPT !.start = q,
                             !.samples = (IF q > b.start THEN E!CarryForward(@, q) ELSE @)
                                         \cup (IF usable THEN {tick.now} ELSE {})]
           written == E!QuarterFrom(b)
<1>1. /\ tick.at = "read"
      /\ intervals' = IF q > b.start /\ stored THEN E!Put(written) ELSE intervals
      /\ buffer' = next /\ tick' = E!NoTick
      /\ seen' = IF usable THEN seen \cup {<<tick.now, tick.entity>>} ELSE seen
      /\ UNCHANGED <<profile, mapping, imports, onboarding, chart, energyRequest, now>>
  BY DEF E!Finish
<1>2. /\ tick.entity \in Entities /\ tick.now \in 0 .. EnergyHorizon /\ tick.now < now
      /\ now \in 0 .. EnergyHorizon
      /\ tick.late \in BOOLEAN /\ (profile = "unclaimed" /\ ~onboarding => tick.late)
  BY <1>1 DEF EnergyInv, E!TypeOK, Ticking
<1>3. q \in 0 .. EnergyHorizon /\ q * Quarter <= tick.now
  BY <1>2, QuarterBegins, HouseAssumption
<1> HIDE DEF q
<1>4. /\ b \in Keeping /\ b.entity = tick.entity
      /\ \A s \in b.samples : <<s, tick.entity>> \in seen
  BY <1>2, <1>3 DEF EnergyInv, E!TypeOK, E!BufferFor, Buffered, Keeping
<1> HIDE DEF b
<1>5. kept \subseteq b.samples
  BY DEF E!CarryForward
<1>6. PICK more \in SUBSET {tick.now} : (usable => more = {tick.now}) /\ (~usable => more = {})
  OBVIOUS
<1>7. next = [b EXCEPT !.start = q, !.samples = kept \cup more]
  BY <1>4, <1>6 DEF Keeping
<1>8. buffer' \in Keeping /\ buffer'.entity = tick.entity /\ buffer'.samples = kept \cup more
  BY <1>1, <1>2, <1>3, <1>4, <1>5, <1>6, <1>7 DEF Keeping
<1>9. /\ seen \subseteq seen' /\ seen' \subseteq (0 .. EnergyHorizon) \X Entities
      /\ \A s \in more : <<s, tick.entity>> \in seen'
  BY <1>1, <1>2, <1>6 DEF EnergyInv, E!TypeOK
<1>10. /\ written \in E!Row /\ written.quarter = b.start /\ written.entity = tick.entity
       /\ written.late = tick.late
       /\ written.value => E!Complete(E!Covered(b.samples, b.start))
  <2>1. E!Complete(E!Covered(b.samples, b.start)) \in BOOLEAN
    BY DEF E!Complete
  <2>2. written = [quarter |-> b.start, entity |-> b.entity,
               value |-> E!Complete(E!Covered(b.samples, b.start)), late |-> tick.late]
    BY DEF E!QuarterFrom
  <2> HIDE DEF written
  <2> QED BY <1>2, <1>4, <2>1, <2>2 DEF E!Row, Keeping
<1> HIDE DEF written, next, kept
<1>11. Locked' /\ Claimed' /\ Ticking' /\ Buffered'
  <2>1. Locked' /\ Claimed'
    BY <1>1 DEF EnergyInv, Locked, Claimed, E!Holds
  <2>2. Ticking'
    BY <1>1, Resting DEF Ticking
  <2>3. Buffered'
    BY <1>4, <1>5, <1>8, <1>9 DEF Buffered
  <2> QED BY <2>1, <2>2, <2>3
<1>12. intervals' \subseteq E!Row => E!TypeOK'
  <2>1. tick' \in Taking
    BY <1>1, Resting
  <2> QED BY <1>1, <1>8, <1>9, <2>1 DEF EnergyInv, E!TypeOK, Asking, Taking, Keeping
<1>13. CASE q > b.start /\ stored
  <2>1. \A i \in intervals' : i \in intervals \/ i = written
    BY <1>1, <1>13 DEF E!Put
  <2>2. intervals' \subseteq E!Row
    BY <1>10, <2>1 DEF EnergyInv, E!TypeOK
  <2>3. written.quarter * Quarter + Quarter <= now
    BY <1>2, <1>3, <1>4, <1>10, <1>13, QuarterEnds, HouseAssumption DEF Keeping
  <2>4. written.value => E!Complete(Watched(written.quarter, written.entity, seen'))
    <3>1. E!Covered(b.samples, b.start) \subseteq Watched(b.start, tick.entity, seen')
      BY <1>4, <1>9 DEF E!Covered, Watched, Keeping
    <3>2. Watched(b.start, tick.entity, seen') \in SUBSET E!Steps(b.start) /\ b.start \in Nat
      BY <1>4 DEF Watched, Keeping
    <3> QED BY <1>10, <3>1, <3>2, CompleteMore
  <2>5. E!QuarterObserved'
    <3>1. ASSUME NEW i \in intervals
          PROVE  /\ i.quarter * Quarter + Quarter <= now
                 /\ i.value => E!Complete(Watched(i.quarter, i.entity, seen'))
      <4>1. i.quarter \in Nat
        BY DEF EnergyInv, E!TypeOK, E!Row
      <4>2. /\ i.quarter * Quarter + Quarter <= now
            /\ i.value => E!Complete(Watched(i.quarter, i.entity, seen))
        BY DEF EnergyInv, E!QuarterObserved, Watched
      <4>3. Watched(i.quarter, i.entity, seen) \subseteq Watched(i.quarter, i.entity, seen')
        BY <1>9 DEF Watched
      <4>4. Watched(i.quarter, i.entity, seen') \in SUBSET E!Steps(i.quarter)
        BY DEF Watched
      <4> QED BY <4>1, <4>2, <4>3, <4>4, CompleteMore
    <3> QED BY <1>1, <2>1, <2>3, <2>4, <3>1 DEF E!QuarterObserved, Watched, E!Complete, E!Steps
  <2>6. E!NothingRevived'
    BY <1>1, <1>2, <1>10, <2>1 DEF EnergyInv, E!NothingRevived
  <2> QED BY <1>11, <1>12, <2>2, <2>5, <2>6 DEF EnergyInv
<1>14. CASE ~(q > b.start /\ stored)
  <2>1. intervals' = intervals
    BY <1>1, <1>14
  <2>2. E!QuarterObserved'
    BY <1>1, <1>2, <1>9, <2>1, ObservedLater
  <2>3. E!NothingRevived' /\ intervals' \subseteq E!Row
    BY <1>1, <2>1 DEF EnergyInv, E!TypeOK, E!NothingRevived
  <2> QED BY <1>11, <1>12, <2>2, <2>3 DEF EnergyInv
<1> QED BY <1>13, <1>14

\* A home begins without a profile and without data.
LEMMA EnergyInit == E!Init => EnergyInv
<1> SUFFICES ASSUME E!Init PROVE EnergyInv
  OBVIOUS
<1>1. E!TypeOK
  BY Resting, HouseAssumption DEF E!Init, E!TypeOK, Asking, Taking, Keeping
<1>2. Locked /\ Claimed /\ Ticking /\ Buffered /\ E!NothingRevived /\ E!QuarterObserved
  BY Resting
    DEF E!Init, Locked, Claimed, E!Holds, Ticking, Buffered, E!NothingRevived, E!QuarterObserved
<1> QED BY <1>1, <1>2 DEF EnergyInv

\* Every step of the energy data keeps its invariant.
LEMMA EnergyNext == EnergyInv /\ [E!Next]_energy => EnergyInv'
BY EnterInv, LeavingInv, WritingInv, DeleteInv, PassingInv, FinishInv DEF E!Next
-------------------------------------------------------------------------------
(* The house.                                                               *)

\* The services share no state: their invariants do not depend on one another.

\* Every step of the connector keeps its invariant.
LEMMA ConnectorNext == ConnectorInv /\ [C!Next]_connectors => ConnectorInv'
  BY TypesStay, CredentialsStay, CodesStay, OwnersStay, ConnectorRests DEF ConnectorInv

\* A run is stored while the statements are active, and only then.
StatementsInv == IF active = "statements" THEN CalculatedInv ELSE run = NoRun

\* A step of the house is a step of a service, or the service rests.
LEMMA HouseSteps ==
  ASSUME [HouseNext]_services
  PROVE  /\ [C!Next]_connectors /\ [V!Next]_votes /\ [E!Next]_energy /\ [Next]_vars
         /\ active' = active
         /\ IF active = "statements" THEN [StatementNext]_statements ELSE UNCHANGED statements
<1>1. CASE HouseNext
  BY <1>1 DEF HouseNext, connectors, votes, energy, vars, statements
<1>2. CASE UNCHANGED services
  BY <1>2 DEF services
<1> QED BY <1>1, <1>2

LEMMA StatementsInit == HouseInit => StatementsInv
BY CalculatedInit DEF HouseInit, StatementsInv

LEMMA StatementsNext == ASSUME StatementsInv, [HouseNext]_services PROVE StatementsInv'
<1>1. CASE active = "statements"
  <2>1. CalculatedInv /\ [StatementNext]_statements /\ active' = active
    BY <1>1, HouseSteps DEF StatementsInv
  <2>2. CalculatedInv'
    BY <2>1, CalculatedNext
  <2> QED BY <1>1, <2>1, <2>2 DEF StatementsInv
<1>2. CASE active # "statements"
  <2>1. run = NoRun /\ UNCHANGED statements /\ active' = active
    BY <1>2, HouseSteps DEF StatementsInv
  <2> QED BY <1>2, <2>1 DEF StatementsInv, statements, NoRun
<1> QED BY <1>1, <1>2

\* What holds of the house, service by service.
HouseInv == ConnectorInv /\ BallotInv /\ EnergyInv /\ MembersInv /\ StatementsInv

\* The services' invariants hold in every reachable state of the house.
THEOREM HouseInvariant == HouseSpec => []HouseInv
<1>1. HouseInit => HouseInv
  BY ConnectorInit, BallotInit, EnergyInit, MembersInit, StatementsInit DEF HouseInit, HouseInv
<1>2. ASSUME HouseInv, [HouseNext]_services PROVE HouseInv'
  <2>1. ConnectorInv /\ BallotInv /\ EnergyInv /\ MembersInv /\ StatementsInv
    BY <1>2 DEF HouseInv
  <2>2. [C!Next]_connectors /\ [V!Next]_votes /\ [E!Next]_energy /\ [Next]_vars
    BY <1>2, HouseSteps
  <2>3. ConnectorInv' /\ BallotInv' /\ EnergyInv' /\ MembersInv'
    BY <2>1, <2>2, ConnectorNext, BallotNext, EnergyNext, MembersNext
  <2>4. StatementsInv'
    BY <1>2, <2>1, StatementsNext
  <2> QED BY <2>3, <2>4 DEF HouseInv
<1>3. HouseInv /\ [HouseNext]_services => HouseInv'
  BY <1>2
<1> QED BY <1>1, <1>3, PTL DEF HouseSpec

\* Every variable of the connector, the ballot and the energy data keeps its type.
THEOREM TypesHold == HouseSpec => [](C!TypeOK /\ V!TypeOK /\ E!TypeOK)
<1>1. HouseInv => C!TypeOK /\ V!TypeOK /\ E!TypeOK
  BY DEF HouseInv, ConnectorInv, BallotInv, EnergyInv
<1> QED BY <1>1, HouseInvariant, PTL

\* A pairing code makes one credential, however many requests found it
\* (ExchangePairing).
THEOREM CodePairsOnce == HouseSpec => []CodeOnce
<1>1. HouseInv => CodeOnce
  BY DEF HouseInv, ConnectorInv, CodesSpent, CodeOnce, C!CodeOnce
<1> QED BY <1>1, HouseInvariant, PTL

\* The stored readings are the paired connector's, but for those of a heartbeat
\* that had been accepted before and those a failure left behind.
THEOREM ReadingsAreThePaired == HouseSpec => []ReadingsOwned
<1>1. HouseInv => ReadingsOwned
  BY DEF HouseInv, ConnectorInv, ReadingsOwned
<1> QED BY <1>1, HouseInvariant, PTL

\* As long as no document is written over a newer one, the ballot's row counts
\* what was acknowledged and a protocol is final (castVote, setStatus).
THEOREM VotesCount == HouseSpec => []CountsTrue
<1>1. HouseInv => CountsTrue
  BY DEF HouseInv, BallotInv, CountsTrue
<1> QED BY <1>1, HouseInvariant, PTL

\* Nobody is reminded twice unless the mark of the first reminder was lost
\* (sendDueBallotReminders).
THEOREM RemindersAreSingle == HouseSpec => []RemindedOnce
<1>1. HouseInv => RemindedOnce
  BY DEF HouseInv, BallotInv, RemindedOnce
<1> QED BY <1>1, HouseInvariant, PTL

\* After the deletion of a profile nothing of it comes back, whatever was
\* running, but the quarter of a sampling step under way
\* (energy_lifecycle_lock.go).
THEOREM DeletionLasts == HouseSpec => []NothingRevived
<1>1. HouseInv => NothingRevived
  BY DEF HouseInv, EnergyInv, NothingRevived
<1> QED BY <1>1, HouseInvariant, PTL

\* A stored quarter is over, and one with a value was watched for nine tenths,
\* over restarts, changes of the sensor and deletions (energy_sampler.go).
THEOREM QuartersWatched == HouseSpec => []QuarterObserved
<1>1. HouseInv => QuarterObserved
  BY DEF HouseInv, EnergyInv, QuarterObserved
<1> QED BY <1>1, HouseInvariant, PTL

\* An organisation can always take back what it granted: it still has the
\* person and an undo record of the house, however grants, role changes,
\* removals, house transfers, admins' decisions and stale profile edits mix.
THEOREM GrantsRevocable == HouseSpec => []GrantsCovered
<1>1. HouseInv => GrantsCovered
  BY DEF HouseInv, MembersInv
<1> QED BY <1>1, HouseInvariant, PTL

\* Without the organisations a person has what the house admins decided last,
\* in every house whose row no stale request has written over.
THEOREM LastWordRestored == HouseSpec => []Restores
<1>1. HouseInv => Restores
  BY DEF HouseInv, MembersInv
<1> QED BY <1>1, HouseInvariant, PTL

\* The bills of units and landlord are the receipts, their VAT is the house's
\* of each rate, and the parties of a unit divide its cents, its VAT and its
\* prepayments without a rest: for any amounts, units, days and parties
\* (calculateAnnualStatementRun, applyAnnualStatementVAT, annualUnitPartyShares).
THEOREM NothingLost == HouseSpec => []CentsConserved
<1>1. HouseInv => CentsConserved
  <2>1. run = NoRun => CentsConserved
    BY DEF CentsConserved
  <2> QED BY <2>1, Conserved DEF HouseInv, StatementsInv
<1> QED BY <1>1, HouseInvariant, PTL

\* Shares rounded to millionths and cents rounded from them stay within a cent
\* and a millionth, and in order (distributePPM, annualStatementRunCents).
THEOREM RoundingIsFair == HouseSpec => []SharesFair
<1>1. HouseInv => SharesFair
  <2>1. run = NoRun => SharesFair
    BY DEF SharesFair
  <2> QED BY <2>1, SharedFairly DEF HouseInv, StatementsInv
<1> QED BY <1>1, HouseInvariant, PTL
===============================================================================
