------------------------------- MODULE ApiKeys -------------------------------
(***************************************************************************)
(* The life of an API key (TenantStore, GatewayDatabase.authenticate, the  *)
(* member's key routes and the operator CLI).  Two processes write one     *)
(* SQLite file: the service, where a handler runs to its end, and the CLI. *)
(* rotate reads the key before its transaction, so the other process may   *)
(* write in between: a rotation is two steps.                              *)
(*                                                                         *)
(* Rows of api_keys are never deleted; they are named by their position.   *)
(* Name, mode, prefix and hash of a key are left out.                      *)
(***************************************************************************)
EXTENDS Naturals, Sequences, FiniteSets

CONSTANTS
  Tenants,
  Scopes,        \* the scope sets keys are issued with
  Lifetimes,     \* expiresInDays, in ticks; Never: not given
  Graces,        \* graceMinutes, in ticks
  Day,           \* the window of keysIssuedToday
  DailyLimit,    \* MEMBER_KEY_DAILY_LIMIT
  TouchInterval, \* TOUCH_INTERVAL_MS
  MaxKeys,       \* bound: keys ever issued
  MaxTime        \* bound: the clock

\* A NULL column.
Never == 0

ASSUME KeysAssumption ==
  /\ Lifetimes \subseteq Nat /\ Graces \subseteq Nat
  /\ Day \in Nat /\ DailyLimit \in Nat /\ TouchInterval \in Nat
  /\ MaxKeys \in Nat /\ MaxTime \in Nat

Processes == {"service", "cli"}

VARIABLES
  key,      \* api_keys, in the order of their insertion
  rotating, \* rotating[p]: the key process p found and is about to replace
  now       \* the clock

keyVars == <<key, rotating, now>>

Ids  == DOMAIN key
Idle == [key |-> 0, unretired |-> FALSE]

\* authenticate: an expired key is unknown, one whose revocation has come is
\* refused; a revocation still to come changes nothing.
Expired(k) == key[k].expires # Never /\ key[k].expires <= now
Retired(k) == key[k].revoked # Never /\ key[k].revoked <= now
Valid(k)   == ~Expired(k) /\ ~Retired(k)

(***************************************************************************)
(* TenantStore.                                                            *)
(***************************************************************************)
\* A handler or a command of p runs alone in its process.
Free(p) == rotating[p] = Idle

issue(tenant, by, scopes, days, from) ==
  [tenant |-> tenant, by |-> by, scopes |-> scopes, from |-> from, created |-> now,
   expires |-> IF days = Never THEN Never ELSE now + days,
   revoked |-> Never, used |-> Never]

Insert(row) == Len(key) < MaxKeys /\ key' = Append(key, row)

\* revoked_at IS NULL is part of the WHERE: during the grace of a rotation a
\* revocation changes nothing.
revoke(k) ==
  key' = IF key[k].revoked = Never THEN [key EXCEPT ![k].revoked = now] ELSE key

\* mutant: a key that is revoked is found, too
findForRotationAny(p, k) ==
  rotating' = [rotating EXCEPT ![p] = [key |-> k, unretired |-> key[k].revoked = Never]]

findForRotation(p, k) ==
  /\ key[k].revoked = Never
  /\ rotating' = [rotating EXCEPT ![p] = [key |-> k, unretired |-> TRUE]]

\* The transaction of rotate.  Its UPDATE names the key and asks no more.
replace(p, by, grace, days) ==
  LET k   == rotating[p].key
      row == issue(key[k].tenant, by, key[k].scopes, days, k)
  IN  /\ Len(key) < MaxKeys
      /\ key' = Append([key EXCEPT ![k].revoked = now + grace], row)

\* mutant: keys that are revoked are not counted
keysIssuedTodayUnrevoked(t) ==
  Cardinality({k \in Ids : /\ key[k].tenant = t /\ key[k].created + Day >= now
                           /\ key[k].revoked = Never})

\* Replacements and the operator's keys are counted with the rest.
keysIssuedToday(t) == Cardinality({k \in Ids : key[k].tenant = t /\ key[k].created + Day >= now})

(***************************************************************************)
(* Requests.                                                               *)
(***************************************************************************)
\* mutant: the key is touched before its expiry is looked at
AuthenticateTouchesFirst(k) ==
  /\ Free("service")
  /\ key[k].used = Never \/ now - key[k].used >= TouchInterval
  /\ key' = [key EXCEPT ![k].used = now]
  /\ UNCHANGED <<rotating, now>>

\* authenticate touches every key it knows, one that is refused later too.
Authenticate(k) ==
  /\ Free("service") /\ ~Expired(k)
  /\ key[k].used = Never \/ now - key[k].used >= TouchInterval
  /\ key' = [key EXCEPT ![k].used = now]
  /\ UNCHANGED <<rotating, now>>

(***************************************************************************)
(* The member's routes.                                                    *)
(***************************************************************************)
MemberIssue(t, scopes) ==
  /\ Free("service")
  /\ keysIssuedToday(t) < DailyLimit
  /\ Insert(issue(t, "member", scopes, Never, 0))
  /\ UNCHANGED <<rotating, now>>

\* It answers revoked: true whether or not a row changed.
MemberRevoke(k) ==
  /\ Free("service")
  /\ revoke(k)
  /\ UNCHANGED <<rotating, now>>

MemberRotate(k) ==
  /\ Free("service")
  /\ keysIssuedToday(key[k].tenant) < DailyLimit
  /\ findForRotation("service", k)
  /\ UNCHANGED <<key, now>>

\* The replacement of a member's key never expires.
MemberReplace(grace) ==
  /\ ~Free("service")
  /\ replace("service", "member", grace, Never)
  /\ rotating' = [rotating EXCEPT !["service"] = Idle]
  /\ UNCHANGED now

(***************************************************************************)
(* The operator's commands: key:issue, key:revoke, key:rotate.             *)
(***************************************************************************)
OperatorIssue(t, scopes, days) ==
  /\ Free("cli")
  /\ Insert(issue(t, "operator", scopes, days, 0))
  /\ UNCHANGED <<rotating, now>>

OperatorRevoke(k) ==
  /\ Free("cli") /\ key[k].revoked = Never
  /\ revoke(k)
  /\ UNCHANGED <<rotating, now>>

OperatorRotate(k) ==
  /\ Free("cli")
  /\ findForRotation("cli", k)
  /\ UNCHANGED <<key, now>>

OperatorReplace(grace, days) ==
  /\ ~Free("cli")
  /\ replace("cli", "operator", grace, days)
  /\ rotating' = [rotating EXCEPT !["cli"] = Idle]
  /\ UNCHANGED now

\* The other process holds the database too long, or this one stops: nothing
\* of the transaction is left.
ReplaceFails(p) ==
  /\ ~Free(p)
  /\ rotating' = [rotating EXCEPT ![p] = Idle]
  /\ UNCHANGED <<key, now>>

Tick ==
  /\ now < MaxTime
  /\ now' = now + 1
  /\ UNCHANGED <<key, rotating>>

Init ==
  /\ key = <<>>
  /\ rotating = [p \in Processes |-> Idle]
  /\ now = 1

Member ==
  \/ \E t \in Tenants, scopes \in Scopes : MemberIssue(t, scopes)
  \/ \E k \in Ids : MemberRevoke(k) \/ MemberRotate(k)
  \/ \E grace \in Graces : MemberReplace(grace)

Operator ==
  \/ \E t \in Tenants, scopes \in Scopes, days \in Lifetimes : OperatorIssue(t, scopes, days)
  \/ \E k \in Ids : OperatorRevoke(k) \/ OperatorRotate(k)
  \/ \E grace \in Graces, days \in Lifetimes : OperatorReplace(grace, days)

Next ==
  \/ Member \/ Operator
  \/ \E k \in Ids : Authenticate(k)
  \/ \E p \in Processes : ReplaceFails(p)
  \/ Tick

Spec == Init /\ [][Next]_keyVars

-----------------------------------------------------------------------------
(***************************************************************************)
(* Properties.                                                             *)
(***************************************************************************)
KeyRow == [tenant : Tenants, by : {"member", "operator"}, scopes : Scopes, from : Nat,
           created : Nat, expires : Nat, revoked : Nat, used : Nat]

\* Types of the variables.  A rotation under way names a row, and no use of a
\* key is recorded once it is expired.
KeysTypeOK ==
  /\ key \in Seq(KeyRow)
  /\ rotating \in [Processes -> [key : Nat, unretired : BOOLEAN]]
  /\ now \in Nat \ {0}
  /\ \A p \in Processes : rotating[p] = Idle \/ rotating[p].key \in Ids
  /\ \A k \in Ids : key[k].used # Never /\ key[k].expires # Never => key[k].used < key[k].expires

\* A replacement carries the tenant and the scopes of the key it came from,
\* which is retired, and not before the replacement could be used: callers
\* migrate without a gap in service.
Lineage ==
  \A k \in Ids : key[k].from # 0 =>
    LET old == key[key[k].from]
    IN  /\ key[k].from < k
        /\ old.tenant = key[k].tenant /\ old.scopes = key[k].scopes
        /\ old.revoked # Never /\ key[k].created <= old.revoked

\* A key has one replacement; a second one only when both processes found it
\* before either replaced it.
Replacements ==
  \A k \in Ids : Cardinality({s \in Ids : key[s].from = k}) <= Cardinality(Processes)

\* However a member revokes and rotates, no more than DailyLimit keys of one
\* tenant come from the member's routes within a Day.
DailyLimitHeld ==
  \A k \in Ids : key[k].by = "member" =>
    Cardinality({s \in Ids : /\ key[s].tenant = key[k].tenant /\ key[s].by = "member"
                             /\ s <= k /\ key[s].created + Day >= key[k].created}) <= DailyLimit

\* Every key is accounted for: where it came from, what became of the key it
\* replaces, and the limit it was issued under.
KeysAccountedFor == Lineage /\ Replacements /\ DailyLimitHeld

\* A key that is expired or retired is never valid again, whatever is revoked
\* or rotated later.  The exception is the race of the two processes: a key
\* revoked while the other process, which had found it unrevoked, is between
\* its read and its write is given that rotation's grace.
DeadKeyStaysDead ==
  [][\A k \in Ids : ~Valid(k) =>
       \/ ~Valid(k)'
       \/ \E p \in Processes : /\ rotating[p].key = k /\ rotating[p].unretired
                               /\ rotating'[p] = Idle
    ]_keyVars
=============================================================================
