-------------------------------- MODULE Users --------------------------------
(***************************************************************************)
(* The users of the administration and the roles of their own making       *)
(* (sys_user, roles): who may change them, and the guards of each change.  *)
(* A request reads and checks in one step and commits in another; a row    *)
(* takes the columns that differ from what the request read.  Usernames    *)
(* are not changed here, and a role's permissions are left out.            *)
(*                                                                         *)
(* A definition named X_Something is X with a plausible bug, kept to show  *)
(* which property finds it; no specification uses it.                      *)
(***************************************************************************)
EXTENDS Integers, FiniteSets

CONSTANTS
    User, Role,     \* usernames, codes of custom roles
    Slot,           \* bound: requests at once
    Restarts,       \* do nodes start again
    None, First     \* no code; the user made at the first start

UsersConstants ==
    /\ IsFiniteSet(User) /\ First \in User /\ Restarts \in BOOLEAN /\ Role \cap {None, "super", "admin", "viewer"} = {}

VARIABLES
    users, roles,   \* the rows
    job,            \* what each request is about to commit
    refused         \* the user whom the latest request was not let touch as the last super

vars == <<users, roles, job, refused>>

\* ROLE_NAMES, also codes that a restart writes.
Builtin(role) == CASE role = 0 -> "viewer" [] role = 1 -> "admin" [] OTHER -> "super"
Coded(row) == row.here /\ row.code \in Role
Absent == [here |-> FALSE, role |-> 0, code |-> None, status |-> 0]
Nothing == [op |-> "none"]

\* A code goes before the column; a custom role must be there and enabled.
RoleOf(u) ==
    LET row == users[u] IN
    CASE ~row.here -> "admin"
      [] Coded(row) -> IF roles[row.code] = "enabled" THEN row.code ELSE "admin"
      [] row.here /\ row.code = None -> Builtin(row.role)
      [] OTHER -> row.code

EnabledSuper(u) == users[u].here /\ users[u].role = 2 /\ users[u].status = 1

\* Supers who may not log in count too.
X_EnabledSupers == {u \in User : users[u].here /\ users[u].role = 2}

EnabledSupers == {u \in User : EnabledSuper(u)}

\* Requests are of users who logged in while they were enabled, as every new user is: their
\* role is looked up anew each time, their status is not while the token lasts.
MayAct(u) == RoleOf(u) = "super"

Init ==
    /\ users = [u \in User |-> IF u = First THEN [here |-> TRUE, role |-> 2, code |-> None, status |-> 1] ELSE Absent]
    /\ roles = [r \in Role |-> "absent"]
    /\ job = [s \in Slot |-> Nothing] /\ refused = None
-----------------------------------------------------------------------------
(* What a request reads and checks. *)

\* A custom role is given only if it is there and enabled; None clears it.
ValidCodes == {None} \cup {r \in Role : roles[r] = "enabled"}

Plan(s, j) == job' = [job EXCEPT ![s] = j] /\ UNCHANGED <<users, roles, refused>>

Create(s, u) ==
    \E role \in 0..2, c \in ValidCodes :
        /\ ~users[u].here
        /\ Plan(s, [op |-> "create", u |-> u,
                    row |-> [here |-> TRUE, role |-> IF c = None THEN role ELSE 1, code |-> c, status |-> 1]])

Yourself(a, u) == a = u

\* Nobody but one super is left, as the last-super guard counts.
LastSuper == Cardinality(EnabledSupers) <= 1

\* What a request may give of a column: a value, or nothing.
Given(S) == {{}} \cup {{x} : x \in S}
Or(given, old) == IF given = {} THEN old ELSE CHOOSE x \in given : TRUE

\* A custom role makes the column 1, whatever is given for it.
Updated(row, role, c, status) ==
    [row EXCEPT !.role = IF c \subseteq {None} THEN Or(role, @) ELSE 1,
                !.code = Or(c, @), !.status = Or(status, @)]

Update(s, a, u) ==
    \E role \in Given(0..2), c \in Given(ValidCodes), status \in Given(0..1) :
        LET row == users[u]
            demote == EnabledSuper(u) /\ (~(role \subseteq {2}) \/ ~(c \subseteq {None}))
            guarded == demote \/ (row.status = 1 /\ status = {0})
        IN  /\ row.here /\ ~(guarded /\ Yourself(a, u))
            /\ IF guarded /\ LastSuper
               THEN refused' = u /\ UNCHANGED <<users, roles, job>>
               ELSE Plan(s, [op |-> "update", u |-> u, was |-> row, row |-> Updated(row, role, c, status)])

Delete(s, a, u) ==
    /\ users[u].here /\ ~Yourself(a, u)
    /\ IF EnabledSuper(u) /\ LastSuper
       THEN refused' = u /\ UNCHANGED <<users, roles, job>>
       ELSE Plan(s, [op |-> "update", u |-> u, was |-> users[u], row |-> Absent])

Referenced(r) == \E u \in User : users[u].here /\ users[u].code = r

CreateRole(s, r) == roles[r] = "absent" /\ Plan(s, [op |-> "role", r |-> r, to |-> "enabled"])
EnableRole(s, r) == roles[r] # "absent" /\ Plan(s, [op |-> "role", r |-> r, to |-> "enabled"])
DisableRole(s, r) == roles[r] # "absent" /\ ~Referenced(r) /\ Plan(s, [op |-> "role", r |-> r, to |-> "disabled"])
DeleteRole(s, r) == roles[r] # "absent" /\ ~Referenced(r) /\ Plan(s, [op |-> "role", r |-> r, to |-> "absent"])

Request(s) ==
    /\ job[s] = Nothing
    /\ \E a \in User : MayAct(a) /\
        \/ \E u \in User : Create(s, u) \/ Update(s, a, u) \/ Delete(s, a, u)
        \/ \E r \in Role : CreateRole(s, r) \/ EnableRole(s, r) \/ DisableRole(s, r) \/ DeleteRole(s, r)
-----------------------------------------------------------------------------
(* The commit: a username or code is unique, and a row that is gone is not updated. *)

\* The columns of a row that the request changed.
Merged(now, was, row) ==
    [f \in DOMAIN now |-> IF row[f] = was[f] THEN now[f] ELSE row[f]]

CommitUser(j) ==
    /\ UNCHANGED roles
    /\ users' = CASE j.op = "create" /\ ~users[j.u].here -> [users EXCEPT ![j.u] = j.row]
                  [] j.op = "update" /\ users[j.u].here ->
                        [users EXCEPT ![j.u] = IF j.row = Absent THEN Absent ELSE Merged(@, j.was, j.row)]
                  [] OTHER -> users

Commit(s) ==
    /\ job[s] # Nothing
    /\ IF job[s].op = "role"
       THEN roles' = [roles EXCEPT ![job[s].r] = job[s].to] /\ UNCHANGED users
       ELSE CommitUser(job[s])
    /\ job' = [job EXCEPT ![s] = Nothing] /\ refused' = None

\* A node starts: rows without a code get that of their column.
Restart ==
    /\ Restarts
    /\ users' = [u \in User |-> IF users[u].here /\ users[u].code = None
                               THEN [users[u] EXCEPT !.code = Builtin(users[u].role)] ELSE users[u]]
    /\ refused' = None /\ UNCHANGED <<roles, job>>

Next == Restart \/ \E s \in Slot : Request(s) \/ Commit(s)

Spec == Init /\ [][Next]_vars
-----------------------------------------------------------------------------
(* Properties. *)

\* Who can log in and manage the users.
Manages(u) == users[u].here /\ users[u].status = 1 /\ RoleOf(u) = "super"

\* users.py: the last enabled super is never demoted, disabled or deleted, not even by one
\* who was disabled while he was logged in: if those whom the guard counts are supers by
\* their code as well, one of them can log in and manage the users.
SomeSuperStays == (\A u \in EnabledSupers : RoleOf(u) = "super") => \E u \in User : Manages(u)

\* roles.py: a role is not disabled or deleted while a user has it, which would change
\* what that user may do.
RolesOfUsersStay ==
    \A u \in User : Coded(users[u]) => roles[users[u].code] = "enabled"
-----------------------------------------------------------------------------
(* Said of the code and refuted by this model; the README tells how. *)

\* users.py: there is always somebody who can log in and manage the users.
SomebodyManages == \E u \in User : Manages(u)

\* users.py: the column of a user with a custom role says admin, so that clearing the code
\* makes nobody a super.
CustomIsAdmin == \A u \in User : Coded(users[u]) => users[u].role = 1

\* users.py: the three built-in roles are expressed by the column alone: who has no custom
\* role is what the column says, also after a change.
ColumnTellsRole == \A u \in User : users[u].here /\ ~Coded(users[u]) => RoleOf(u) = Builtin(users[u].role)

\* Only a super is refused for being the last one.
RefusedIsSuper == refused # None => EnabledSuper(refused)
=============================================================================
