------------------------------ MODULE Membership ------------------------------
(***************************************************************************)
(* The house memberships of one person, as organisations, house admins and *)
(* profile edits change them                                               *)
(* (src/internal/store/organisation_membership_service.go,                 *)
(* identity_sql.go, identity_profile.go).  An organisation that takes the  *)
(* person on grants a role in each of its houses and keeps what was there  *)
(* before, to put it back when the person leaves; grant_origin marks the   *)
(* rows it still owns.  The row of the person is the lock of all of these  *)
(* transactions, so each is one step; what a request reads before its      *)
(* transaction begins is a step of its own, and a read that fails or breaks *)
(* off counts as one that found nothing more.  The organisations know the  *)
(* person by email address, the rows by id: a new address takes the rows   *)
(* along and leaves the records behind.  One profile edit runs at a time.  *)
(***************************************************************************)
EXTENDS Naturals, FiniteSets

CONSTANTS
    Houses,
    Orgs,
    NoOrg,       \* grant_origin ''
    GrantRoles,  \* RoleManager and RoleAdmin, the roles an organisation gives
    ManualRoles  \* roles a house admin gives

ASSUME RolesAssumption ==
    /\ NoOrg \notin Orgs
    /\ "none" \notin GrantRoles \cup ManualRoles
    /\ "untracked" \notin GrantRoles \cup ManualRoles

VARIABLES
    person,     \* is there a row in persons
    row,        \* house_memberships: role ("none": no row) and grant_origin
    member,     \* organisation_members: taken on, and the undo record per house
    houses,     \* organisation_houses
    edit,       \* a profile edit that has read: the roles it read
    leaving,    \* RemoveTenant: after the row, after counting the rows left
    own,        \* history: the role the house admins gave last
    overtaken,  \* history: houses whose row a request wrote that had read others,
                \* or whose undo record stayed with the old address
    stranded    \* history: houses with a row that came along under a new address

vars == <<person, row, member, houses, edit, leaving, own, overtaken, stranded>>

Roles == GrantRoles \cup ManualRoles \cup {"none"}
NoRow == [role |-> "none", origin |-> NoOrg]
Stranger == [in |-> FALSE, undo |-> [h \in Houses |-> "untracked"]]
Records == {Stranger} \cup [in : {TRUE}, undo : [Houses -> Roles \cup {"untracked"}]]
NoEdit == [on |-> FALSE, roles |-> [h \in Houses |-> "none"]]

TypeOK ==
    /\ person \in BOOLEAN
    /\ row \in [Houses -> [role : Roles, origin : Orgs \cup {NoOrg}]]
    /\ member \in [Orgs -> [in : BOOLEAN, undo : [Houses -> Roles \cup {"untracked"}]]]
    /\ houses \in [Orgs -> SUBSET Houses]
    /\ edit \in [on : BOOLEAN, roles : [Houses -> Roles]]
    /\ leaving \in {"no", "removed", "empty"}
    /\ own \in [Houses -> Roles]
    /\ overtaken \subseteq Houses
    /\ stranded \subseteq overtaken

Init ==
    /\ person = FALSE
    /\ row = [h \in Houses |-> NoRow]
    /\ member = [o \in Orgs |-> Stranger]
    /\ houses = [o \in Orgs |-> {}]
    /\ edit = NoEdit
    /\ leaving = "no"
    /\ own = [h \in Houses |-> "none"]
    /\ overtaken = {}
    /\ stranded = {}
-------------------------------------------------------------------------------
(* The organisation's transactions (change).                                *)

Tracked(o, h) == member[o].undo[h] # "untracked"

\* Mutant: a row the organisation once granted is granted again.
KeptNever(o, h) == FALSE

\* A later manual grant or deletion wins.
Kept(o, h) == Tracked(o, h) /\ row[h].origin # o

\* Add takes the person on or changes the role; ChangeRole needs a member.
\* Rights of another organisation refuse the whole change.
Grant(o, role) ==
    LET todo == {h \in houses[o] : ~Kept(o, h)} IN
    /\ person
    /\ \A h \in todo : Tracked(o, h) \/ row[h].origin = NoOrg
    /\ row' = [h \in Houses |-> IF h \in todo THEN [role |-> role, origin |-> o] ELSE row[h]]
    /\ member' = [member EXCEPT ![o] =
           [in |-> TRUE,
            undo |-> [h \in Houses |-> IF h \in todo /\ ~Tracked(o, h)
                                       THEN row[h].role ELSE member[o].undo[h]]]]
    /\ UNCHANGED <<person, houses, edit, leaving, own, overtaken, stranded>>

\* Mutant: only houses the organisation still has are taken back.
RevocableAttached(o) == {h \in houses[o] : Tracked(o, h) /\ row[h].origin = o}

\* Also in houses the organisation has given up since.
Revocable(o) == {h \in Houses : Tracked(o, h) /\ row[h].origin = o}

Remove(o) ==
    /\ person /\ member[o].in
    /\ row' = [h \in Houses |-> IF h \in Revocable(o)
                                THEN [role |-> member[o].undo[h], origin |-> NoOrg] ELSE row[h]]
    /\ member' = [member EXCEPT ![o] = Stranger]
    /\ stranded' = {h \in stranded : row'[h].origin # NoOrg}
    /\ UNCHANGED <<person, houses, edit, leaving, own, overtaken>>

SetHouses(o, S) ==
    /\ S # houses[o]
    /\ houses' = [houses EXCEPT ![o] = S]
    /\ UNCHANGED <<person, row, member, edit, leaving, own, overtaken, stranded>>
-------------------------------------------------------------------------------
(* The house admins' transactions.                                          *)

\* A house admin has decided about h.
Decided(h, role) ==
    /\ own' = [own EXCEPT ![h] = role]
    /\ overtaken' = overtaken \ {h}
    /\ stranded' = stranded \ {h}

\* InviteStore.Add, for a person who is not there yet.
Invite(h, role) ==
    /\ ~person
    /\ person' = TRUE
    /\ row' = [row EXCEPT ![h] = [role |-> role, origin |-> NoOrg]]
    /\ Decided(h, role)
    /\ UNCHANGED <<member, houses, edit, leaving>>

SetTenantMembership(h, role) ==
    /\ person
    /\ row' = [row EXCEPT ![h] = [role |-> role, origin |-> NoOrg]]
    /\ Decided(h, role)
    /\ UNCHANGED <<person, member, houses, edit, leaving>>

\* Toggling one permission makes the whole row a manual one.
MutateTenantPermissions(h) ==
    /\ person /\ row[h].role # "none"
    /\ row' = [row EXCEPT ![h].origin = NoOrg]
    /\ Decided(h, row[h].role)
    /\ UNCHANGED <<person, member, houses, edit, leaving>>

\* RemoveTenant: the row goes, then the rows left are counted, then the person
\* goes, and every row with it.
RemoveTenant(h) ==
    /\ person /\ leaving = "no"
    /\ row' = [row EXCEPT ![h] = NoRow]
    /\ leaving' = "removed"
    /\ Decided(h, "none")
    /\ UNCHANGED <<person, member, houses, edit>>

\* A count that fails, or stops early, is taken for no house left.
CountHouses ==
    /\ leaving = "removed"
    /\ \/ leaving' = "empty"
       \/ leaving' = "no" /\ \E h \in Houses : row[h].role # "none"
    /\ UNCHANGED <<person, row, member, houses, edit, own, overtaken, stranded>>

DeleteLeft ==
    /\ leaving = "empty"
    /\ leaving' = "no"
    /\ person' = FALSE
    /\ row' = [h \in Houses |-> NoRow]
    /\ overtaken' = overtaken \cup {h \in Houses : row[h].role # "none"}
    /\ stranded' = {}
    /\ UNCHANGED <<member, houses, edit, own>>

DeletePerson ==
    /\ person
    /\ person' = FALSE
    /\ row' = [h \in Houses |-> NoRow]
    /\ own' = [h \in Houses |-> "none"]
    /\ overtaken' = {}
    /\ stranded' = {}
    /\ UNCHANGED <<member, houses, edit, leaving>>
-------------------------------------------------------------------------------
(* A profile edit: the whole profile is read (Mutate, Update), changed, and *)
(* written back in a transaction of its own (writeProfile).                 *)

\* The houses the read gets to see; the others are not in the profile.
ReadProfile ==
    /\ person /\ ~edit.on
    /\ \E found \in SUBSET Houses :
          edit' = [on |-> TRUE,
                   roles |-> [h \in Houses |-> IF h \in found THEN row[h].role ELSE "none"]]
    /\ UNCHANGED <<person, row, member, houses, leaving, own, overtaken, stranded>>

\* Mutant: the provenance is kept whatever the role becomes.
OriginAlways(h, role) == row[h].origin

\* Provenance stays where the privileges do not change.
OriginAfter(h, role) == IF row[h].role = role THEN row[h].origin ELSE NoOrg

\* writeProfileTx: a house that is not named any more loses its row, a person
\* who is gone comes back.
Reconcile(roles) ==
    /\ edit.on
    /\ edit' = NoEdit
    /\ person' = TRUE
    /\ row' = [h \in Houses |-> IF roles[h] = "none" THEN NoRow
                                ELSE [role |-> roles[h], origin |-> OriginAfter(h, roles[h])]]

Misread == {h \in Houses : row[h].role # edit.roles[h]}

\* roles is what was read, with at most one house changed.
WriteProfile(roles) ==
    LET chosen == {h \in Houses : roles[h] # edit.roles[h]} IN
    /\ Cardinality(chosen) <= 1
    /\ Reconcile(roles)
    /\ own' = [h \in Houses |-> IF h \in chosen THEN roles[h] ELSE own[h]]
    /\ overtaken' = overtaken \cup Misread
    /\ stranded' = {h \in stranded : row'[h].origin # NoOrg}
    /\ UNCHANGED <<member, houses, leaving>>

\* Update under a new address, with the records the organisations happen to
\* have of it.
Rename(records) ==
    /\ Reconcile(edit.roles)
    /\ member' = records
    /\ stranded' = {h \in Houses : row'[h].origin # NoOrg}
    /\ overtaken' = overtaken \cup Misread \cup stranded'
    /\ UNCHANGED <<houses, own, leaving>>

Next ==
    \/ \E o \in Orgs :
          \/ \E role \in GrantRoles : Grant(o, role)
          \/ Remove(o)
          \/ \E S \in SUBSET Houses : SetHouses(o, S)
    \/ \E h \in Houses :
          \/ \E role \in ManualRoles : Invite(h, role) \/ SetTenantMembership(h, role)
          \/ MutateTenantPermissions(h) \/ RemoveTenant(h)
    \/ CountHouses \/ DeleteLeft \/ DeletePerson
    \/ ReadProfile \/ \E roles \in [Houses -> ManualRoles \cup GrantRoles \cup {"none"}] : WriteProfile(roles)
    \/ \E records \in [Orgs -> Records] : Rename(records)

Spec == Init /\ [][Next]_vars
-------------------------------------------------------------------------------
(* Properties.                                                              *)

\* A row an organisation owns can be taken back: the organisation still has the
\* person and an undo record of the house, also when it has given the house up
\* or another organisation has got it (change, writeProfileTx); but for the rows
\* that came along under a new address, while nobody has decided about them
\* since (Update).
GrantsCovered ==
    \A h \in Houses : row[h].origin # NoOrg =>
        /\ row[h].role # "none"
        /\ \/ h \in stranded
           \/ member[row[h].origin].in /\ Tracked(row[h].origin, h)

\* What a person has in a house without an organisation, or will have once it
\* lets them go, is what the house admins decided last, whatever grants, role
\* changes, removals, profile edits and changes of address came in between;
\* except in a house whose row was written or deleted by a request that had read
\* older rows or failed to read them, or was granted by an organisation under an
\* earlier address (change, setMembershipTx, writeProfileTx, RemoveTenant).
Restores ==
    \A h \in Houses \ overtaken :
        own[h] = IF row[h].origin = NoOrg THEN row[h].role ELSE member[row[h].origin].undo[h]
===============================================================================
