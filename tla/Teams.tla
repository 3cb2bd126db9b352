-------------------------------- MODULE Teams --------------------------------
(***************************************************************************)
(* The teams of a tenant and the members in them, from teams.service.ts    *)
(* and the parts of members.service.ts that put a member into a team. A    *)
(* member refers to its team by id, and only the name of a team has an     *)
(* index of its own; every service call reads first and writes later.      *)
(***************************************************************************)
EXTENDS Naturals, FiniteSets

CONSTANTS
    TeamIds,    \* ids of teams, none of them handed out twice
    Names,      \* normalised names
    Colors,     \* availableColors
    Members,
    Callers,    \* requests in flight
    None,
    Together    \* the kinds of requests that may overlap

VARIABLES
    teams,      \* the documents: name and colour
    gone,       \* ids of teams that were deleted
    members,    \* the state and the team of every member
    calls,      \* what every request is doing
    repeated    \* was a colour given again, for want of another or at a user's wish?

teamState == <<teams, gone, members, calls, repeated>>

NoTeam == [name |-> None, color |-> None]
Existing == {t \in TeamIds : teams[t] # NoTeam}
Live     == {m \in Members : members[m].state = "live"}
Taken    == {teams[t].name : t \in Existing}
Used     == {teams[t].color : t \in Existing}
Named(n) == {t \in Existing : teams[t].name = n}
Unborn   == TeamIds \ (Existing \cup gone)
NewId    == CHOOSE t \in Unborn : TRUE

Kinds == {"create", "update", "associate", "members", "member", "delete", "bulk", "import"}

\* A request: the team, the name and the colour it has in hand, the members it
\* still has to write, and for an import the team name of every new member, the
\* teams found, the colours found in use and the colours picked so far.
Free == [kind |-> None, team |-> None, name |-> None, color |-> None, todo |-> {}, wanted |-> <<>>,
         found |-> <<>>, used |-> {}, picked |-> <<>>]

Do(r, c)   == calls' = [calls EXCEPT ![r] = c]
End(r)     == Do(r, Free)
Doing(r, k) == calls[r].kind = k

Starting(r, k) ==
    /\ calls[r] = Free
    /\ \A q \in Callers : calls[q] # Free => {k, calls[q].kind} \subseteq Together

Init ==
    /\ teams = [t \in TeamIds |-> NoTeam] /\ gone = {}
    /\ members = [m \in Members |-> [state |-> "absent", team |-> None]]
    /\ calls = [r \in Callers |-> Free] /\ repeated = FALSE

-----------------------------------------------------------------------------
\* Teams by themselves.

\* assignColor: a colour no team has, any if there is none.
Picked(c) == c \in (IF Colors \subseteq Used THEN Colors ELSE Colors \ Used)

\* create answers the team that has the name already.
Create(r) ==
    /\ Starting(r, "create")
    /\ \E n \in Names \ Taken, c \in Colors :
          /\ Picked(c)
          /\ Do(r, [Free EXCEPT !.kind = "create", !.name = n, !.color = c])
          /\ repeated' = (repeated \/ c \in Used)
    /\ UNCHANGED <<teams, gone, members>>

\* The index on the name has the last word.
CreateSave(r) ==
    /\ Doing(r, "create")
    /\ IF calls[r].name \in Taken \/ Unborn = {} THEN UNCHANGED teams
       ELSE teams' = [teams EXCEPT ![NewId] = [name |-> calls[r].name, color |-> calls[r].color]]
    /\ End(r)
    /\ UNCHANGED <<gone, members, repeated>>

\* update: a name that another team has is refused; the colour may come with it.
Update(r) ==
    /\ Starting(r, "update")
    /\ \E t \in Existing, n \in Names, c \in {None} \cup Colors :
          /\ Named(n) \subseteq {t}
          /\ Do(r, [Free EXCEPT !.kind = "update", !.team = t, !.name = n, !.color = c])
    /\ UNCHANGED <<teams, gone, members, repeated>>

Refuses(t, n) == ~ Named(n) \subseteq {t}

UpdateWrite(r) ==
    /\ Doing(r, "update")
    /\ LET t == calls[r].team
           n == calls[r].name
           c == calls[r].color
       IN  IF t \notin Existing \/ Refuses(t, n) THEN UNCHANGED <<teams, repeated>>
           ELSE /\ teams' = [teams EXCEPT ![t] = [name |-> n, color |-> IF c = None THEN @.color ELSE c]]
                /\ repeated' = (repeated \/ c # None)
    /\ End(r)
    /\ UNCHANGED <<gone, members>>

\* Mutant: the members of the team are not asked for.
EmptyAlways(t) == TRUE

\* find does not return members that were deleted.
Empty(t) == \A m \in Live : members[m].team # t

Delete(r) ==
    /\ Starting(r, "delete")
    /\ \E t \in Existing : Empty(t) /\ Do(r, [Free EXCEPT !.kind = "delete", !.team = t])
    /\ UNCHANGED <<teams, gone, members, repeated>>

DeleteWrite(r) ==
    /\ Doing(r, "delete")
    /\ teams' = [teams EXCEPT ![calls[r].team] = NoTeam]
    /\ gone'  = gone \cup {calls[r].team}
    /\ End(r)
    /\ UNCHANGED <<members, repeated>>

\* bulkDelete first takes the team from its members, deleted ones included. It
\* writes '' where an id belongs: Mongoose may refuse that, and the request
\* fails, or take it for no team.
BulkDelete(r) ==
    /\ Starting(r, "bulk")
    /\ \E t \in Existing :
          /\ Do(r, [Free EXCEPT !.kind = "bulk", !.team = t])
          /\ members' = [m \in Members |->
                IF members[m].team = t THEN [members[m] EXCEPT !.team = None] ELSE members[m]]
    /\ UNCHANGED <<teams, gone, repeated>>

BulkWrite(r) ==
    /\ Doing(r, "bulk")
    /\ teams' = [teams EXCEPT ![calls[r].team] = NoTeam]
    /\ gone'  = gone \cup {calls[r].team}
    /\ End(r)
    /\ UNCHANGED <<members, repeated>>

-----------------------------------------------------------------------------
\* Members of teams. A caller names a team that exists when it asks.

Put(m, t) == members' = [members EXCEPT ![m].team = t]

\* associateTeamToMember asks for the team; it finds deleted members too.
Associate(r) ==
    /\ Starting(r, "associate")
    /\ \E t \in Existing, m \in Members :
          /\ members[m].state # "absent"
          /\ Do(r, [Free EXCEPT !.kind = "associate", !.team = t, !.todo = {m}])
    /\ UNCHANGED <<teams, gone, members, repeated>>

\* changeTeamForMembers does not, and saves one member after the other.
ChangeMembers(r) ==
    /\ Starting(r, "members")
    /\ \E t \in Existing, M \in (SUBSET Live) \ {{}} :
          Do(r, [Free EXCEPT !.kind = "members", !.team = t, !.todo = M])
    /\ UNCHANGED <<teams, gone, members, repeated>>

PutOne(r) ==
    /\ calls[r].kind \in {"associate", "members"}
    /\ \E m \in calls[r].todo :
          /\ Put(m, calls[r].team)
          /\ IF calls[r].todo = {m} THEN End(r) ELSE Do(r, [calls[r] EXCEPT !.todo = @ \ {m}])
    /\ UNCHANGED <<teams, gone, repeated>>

\* unassignMemberFromTeam.
Unassign(m) ==
    /\ members[m].team # None
    /\ \A r \in Callers : m \notin calls[r].todo      \* saves of one member at a time
    /\ Put(m, None)
    /\ UNCHANGED <<teams, gone, calls, repeated>>

\* A member is created, or edited, with the team of the form: nobody asks for it.
EditMember(r) ==
    /\ Starting(r, "member")
    /\ \E m \in Members, t \in Existing :
          Do(r, [Free EXCEPT !.kind = "member", !.team = t, !.todo = {m}])
    /\ UNCHANGED <<teams, gone, members, repeated>>

EditWrite(r) ==
    /\ Doing(r, "member")
    /\ \E m \in calls[r].todo :
          members' = [members EXCEPT ![m] = [state |-> IF @.state = "absent" THEN "live" ELSE @.state,
                                             team  |-> calls[r].team]]
    /\ End(r)
    /\ UNCHANGED <<teams, gone, repeated>>

\* A deleted member keeps its team.
DeleteMember(m) ==
    /\ members[m].state = "live"
    /\ members' = [members EXCEPT ![m].state = "deleted"]
    /\ UNCHANGED <<teams, gone, calls, repeated>>

-----------------------------------------------------------------------------
\* The import of members, one transaction, creates the teams that are missing.

Missing(c) == {c.wanted[m] : m \in DOMAIN c.wanted} \ DOMAIN c.found

Import(r) ==
    /\ Starting(r, "import")
    /\ \E M \in (SUBSET {m \in Members : members[m].state = "absent"}) \ {{}} :
       \E wanted \in [M -> Names] :
          Do(r, [Free EXCEPT !.kind = "import", !.wanted = wanted, !.used = Used,
                 !.found = [n \in Taken |-> CHOOSE t \in Named(n) : TRUE]])
    /\ UNCHANGED <<teams, gone, members, repeated>>

\* The import asks assignColor again while the colour is one it knows to be in
\* use; what assignColor sees does not contain the teams of the import.
Accepts(k, c) == c \notin k.used

Paint(r) ==
    /\ Doing(r, "import") /\ Missing(calls[r]) # DOMAIN calls[r].picked
    /\ LET k == calls[r]
           n == CHOOSE x \in Missing(k) \ DOMAIN k.picked : TRUE
       IN  \E c \in Colors :
              /\ Picked(c) /\ Accepts(k, c)
              /\ Do(r, [k EXCEPT !.used = @ \cup {c},
                                 !.picked = [x \in DOMAIN @ \cup {n} |-> IF x = n THEN c ELSE @[x]]])
    /\ UNCHANGED <<teams, gone, members, repeated>>

Commit(r) ==
    /\ Doing(r, "import") /\ Missing(calls[r]) = DOMAIN calls[r].picked
    /\ LET k == calls[r] IN
       \/ /\ Missing(k) \cap Taken = {} /\ \A m \in DOMAIN k.wanted : members[m].state = "absent"
          /\ \E ids \in [Missing(k) -> Unborn] :
                /\ \A a, b \in Missing(k) : a # b => ids[a] # ids[b]
                /\ teams' = [t \in TeamIds |->
                      IF \E n \in Missing(k) : ids[n] = t
                      THEN LET n == CHOOSE x \in Missing(k) : ids[x] = t IN [name |-> n, color |-> k.picked[n]]
                      ELSE teams[t]]
                /\ members' = [m \in Members |->
                      IF m \in DOMAIN k.wanted
                      THEN [state |-> "live", team |-> IF k.wanted[m] \in Missing(k) THEN ids[k.wanted[m]]
                                                       ELSE k.found[k.wanted[m]]]
                      ELSE members[m]]
       \/ UNCHANGED <<teams, members>>      \* an index or another transaction refuses
    /\ End(r)
    /\ UNCHANGED <<gone, repeated>>

\* Something on the way of a request fails: nothing more of it happens. An
\* import that looks for a colour ends only with the process.
Abandon(r) ==
    /\ calls[r] # Free
    /\ End(r)
    /\ UNCHANGED <<teams, gone, members, repeated>>

Next ==
    \/ \E r \in Callers :
          \/ Create(r) \/ CreateSave(r) \/ Update(r) \/ UpdateWrite(r) \/ Delete(r) \/ DeleteWrite(r)
          \/ BulkDelete(r) \/ BulkWrite(r) \/ Associate(r) \/ ChangeMembers(r) \/ PutOne(r)
          \/ EditMember(r) \/ EditWrite(r) \/ Import(r) \/ Paint(r) \/ Commit(r) \/ Abandon(r)
    \/ \E m \in Members : Unassign(m) \/ DeleteMember(m)

-----------------------------------------------------------------------------
\* Properties.

\* Every variable keeps its shape.
TypeOK ==
    /\ teams \in [TeamIds -> {NoTeam} \cup [name : Names, color : Colors]]
    /\ gone \subseteq TeamIds /\ gone \cap Existing = {}
    /\ members \in [Members -> [state : {"absent", "live", "deleted"}, team : TeamIds \cup {None}]]
    /\ \A r \in Callers : calls[r].kind \in Kinds \cup {None} /\ calls[r].todo \subseteq Members
    /\ repeated \in BOOLEAN

\* The team of a member that is not deleted exists, whatever mixture of edits,
\* deletions and imports ran before.
TeamsResolve == \A m \in Live : members[m].team \in Existing \cup {None}

\* Two teams never share a name, and share a colour only when one was repeated.
TeamsDiffer ==
    \A t, u \in Existing :
        t # u => teams[t].name # teams[u].name /\ (~repeated => teams[t].color # teams[u].color)

\* An import that still needs a colour finds one its loop accepts, whatever teams
\* it has picked colours for, as long as there are colours enough for its teams:
\* assignColor picks at random, so the loop comes to an end.
ImportGoesOn ==
    \A r \in Callers : Doing(r, "import") =>
        LET k == calls[r] IN
        Missing(k) # DOMAIN k.picked /\ Cardinality(Missing(k)) <= Cardinality(Colors \ Used)
            => \E c \in Colors : Picked(c) /\ Accepts(k, c)

\* Teams and members fit together, and the import of a file ends.
TeamsFit == TypeOK /\ TeamsResolve /\ TeamsDiffer /\ ImportGoesOn

=============================================================================
