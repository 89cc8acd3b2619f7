--------------------------- MODULE ApiKeys_proofs ---------------------------
(***************************************************************************)
(* The key rows are well formed, replacements carry what they replace and  *)
(* are at most one for each process, the daily limit holds, and a dead key *)
(* stays dead, for any number of keys and tenants, any limits and any      *)
(* length of time.                                                         *)
(***************************************************************************)
EXTENDS ApiKeys, FiniteSetTheorems, TLAPS

(***************************************************************************)
(* Rows of a sequence that grows or has one row rewritten.                 *)
(***************************************************************************)
\* Appending a row keeps the rows before it.
LEMMA Appended ==
  ASSUME NEW S, NEW s \in Seq(S), NEW x \in S
  PROVE  /\ Append(s, x) \in Seq(S)
         /\ DOMAIN Append(s, x) = DOMAIN s \cup {Len(s) + 1}
         /\ Len(s) + 1 \notin DOMAIN s
         /\ \A k \in DOMAIN s : Append(s, x)[k] = s[k]
         /\ Append(s, x)[Len(s) + 1] = x
OBVIOUS

\* Replacing one row keeps every other row.
LEMMA Replaced ==
  ASSUME NEW S, NEW s \in Seq(S), NEW k \in DOMAIN s, NEW x \in S
  PROVE  /\ [s EXCEPT ![k] = x] \in Seq(S)
         /\ DOMAIN [s EXCEPT ![k] = x] = DOMAIN s
         /\ Len([s EXCEPT ![k] = x]) = Len(s)
         /\ \A j \in DOMAIN s : [s EXCEPT ![k] = x][j] = IF j = k THEN x ELSE s[j]
<1>1. DOMAIN s = 1 .. Len(s) /\ s \in [1 .. Len(s) -> S] /\ Len(s) \in Nat
  OBVIOUS
<1>2. [s EXCEPT ![k] = x] \in [1 .. Len(s) -> S]
  BY <1>1
<1>3. [s EXCEPT ![k] = x] \in Seq(S)
  BY <1>1, <1>2
<1> QED
  BY <1>1, <1>2, <1>3

\* A row whose revocation or last use is set.
WithRevoked(row, n) == [row EXCEPT !.revoked = n]
WithUsed(row, n) == [row EXCEPT !.used = n]

LEMMA RowRewritten ==
  ASSUME NEW row \in KeyRow, NEW n \in Nat
  PROVE  /\ WithRevoked(row, n) \in KeyRow /\ WithRevoked(row, n).revoked = n
         /\ \A f \in {"tenant", "by", "scopes", "from", "created", "expires", "used"} :
              WithRevoked(row, n)[f] = row[f]
         /\ WithUsed(row, n) \in KeyRow /\ WithUsed(row, n).used = n
         /\ \A f \in {"tenant", "by", "scopes", "from", "created", "expires", "revoked"} :
              WithUsed(row, n)[f] = row[f]
BY DEF KeyRow, WithRevoked, WithUsed

(***************************************************************************)
(* The inductive invariant: Lineage, with what it rests on.  No row is of  *)
(* the future, and a rotation under way found its key unrevoked.           *)
(***************************************************************************)
RowsOfThePast == \A k \in Ids : key[k].created <= now

Found == \A p \in Processes : rotating[p] = Idle \/ rotating[p].unretired

KeysInv == KeysTypeOK /\ Lineage /\ RowsOfThePast /\ Found

\* What Lineage and the types say of one row k of the rows s at time n.
RowOK(s, k, n) ==
  /\ s[k].created <= n
  /\ s[k].used # Never /\ s[k].expires # Never => s[k].used < s[k].expires
  /\ s[k].from # 0 =>
       /\ s[k].from < k
       /\ s[s[k].from].tenant = s[k].tenant /\ s[s[k].from].scopes = s[k].scopes
       /\ s[s[k].from].revoked # Never /\ s[k].created <= s[s[k].from].revoked

Rows(s, n) == s \in Seq(KeyRow) /\ \A k \in DOMAIN s : RowOK(s, k, n)

LEMMA KeysInvIsRows ==
  KeysInv <=> /\ Rows(key, now)
              /\ rotating \in [Processes -> [key : Nat, unretired : BOOLEAN]]
              /\ now \in Nat \ {0}
              /\ \A p \in Processes :
                   rotating[p] = Idle \/ (rotating[p].key \in Ids /\ rotating[p].unretired)
BY DEF KeysInv, KeysTypeOK, Lineage, RowsOfThePast, Found, Rows, RowOK, Ids

\* A row names a row before it.
LEMMA PredecessorIsRow ==
  ASSUME NEW s, NEW n, Rows(s, n), NEW j \in DOMAIN s
  PROVE  s[j] \in KeyRow /\ s[j].created \in Nat /\ (s[j].from # 0 => s[j].from \in DOMAIN s)
<1>1. s[j] \in KeyRow /\ DOMAIN s = 1 .. Len(s) /\ Len(s) \in Nat
  BY DEF Rows
<1>2. s[j].created \in Nat /\ s[j].from \in Nat
  BY <1>1 DEF KeyRow
<1>3. s[j].from # 0 => s[j].from < j
  BY DEF Rows, RowOK
<1> QED
  BY <1>1, <1>2, <1>3

\* A key that is touched before it expires.
LEMMA TouchedRows ==
  ASSUME NEW s, NEW n \in Nat \ {0}, Rows(s, n), NEW k \in DOMAIN s,
         s[k].expires = Never \/ n < s[k].expires
  PROVE  Rows([s EXCEPT ![k] = WithUsed(s[k], n)], n)
<1> DEFINE x == WithUsed(s[k], n)
           new == [s EXCEPT ![k] = x]
<1>1. x \in KeyRow /\ s \in Seq(KeyRow) /\ s[k] \in KeyRow
  BY RowRewritten DEF Rows
<1>2. /\ x.used = n /\ x.tenant = s[k].tenant /\ x.scopes = s[k].scopes /\ x.from = s[k].from
      /\ x.created = s[k].created /\ x.expires = s[k].expires /\ x.revoked = s[k].revoked
  BY <1>1, RowRewritten
<1> HIDE DEF x
<1>3. /\ new \in Seq(KeyRow) /\ DOMAIN new = DOMAIN s
      /\ \A j \in DOMAIN s : new[j] = IF j = k THEN x ELSE s[j]
  BY <1>1, Replaced
<1> HIDE DEF new
<1>4. ASSUME NEW j \in DOMAIN s PROVE RowOK(new, j, n)
  <2>1. RowOK(s, j, n)
    BY DEF Rows
  <2>2. s[j].from # 0 => s[j].from \in DOMAIN s
    BY PredecessorIsRow
  <2> QED
    BY <1>2, <1>3, <2>1, <2>2 DEF RowOK
<1> QED
  BY <1>3, <1>4 DEF Rows, new, x

\* A key that is retired, now or later.
LEMMA RetiredRows ==
  ASSUME NEW s, NEW n \in Nat \ {0}, Rows(s, n), NEW k \in DOMAIN s, NEW at \in Nat, n <= at
  PROVE  Rows([s EXCEPT ![k] = WithRevoked(s[k], at)], n)
<1> DEFINE x == WithRevoked(s[k], at)
           new == [s EXCEPT ![k] = x]
<1>1. x \in KeyRow /\ s \in Seq(KeyRow) /\ s[k] \in KeyRow
  BY RowRewritten DEF Rows
<1>2. /\ x.used = s[k].used /\ x.tenant = s[k].tenant /\ x.scopes = s[k].scopes /\ x.from = s[k].from
      /\ x.created = s[k].created /\ x.expires = s[k].expires /\ x.revoked = at
  BY <1>1, RowRewritten
<1> HIDE DEF x
<1>3. /\ new \in Seq(KeyRow) /\ DOMAIN new = DOMAIN s
      /\ \A j \in DOMAIN s : new[j] = IF j = k THEN x ELSE s[j]
  BY <1>1, Replaced
<1> HIDE DEF new
<1>4. ASSUME NEW j \in DOMAIN s PROVE RowOK(new, j, n)
  <2>1. RowOK(s, j, n) /\ s[j].created \in Nat
    BY PredecessorIsRow DEF Rows
  <2>2. s[j].from # 0 => s[j].from \in DOMAIN s
    BY PredecessorIsRow
  <2> QED
    BY <1>2, <1>3, <2>1, <2>2 DEF RowOK, Never
<1> QED
  BY <1>3, <1>4 DEF Rows, new, x

\* A new row, with no predecessor or with one that is retired in time.
LEMMA AppendedRows ==
  ASSUME NEW s, NEW n \in Nat \ {0}, Rows(s, n), NEW row \in KeyRow,
         row.created = n, row.used = Never,
         row.from # 0 =>
           /\ row.from \in DOMAIN s
           /\ s[row.from].tenant = row.tenant /\ s[row.from].scopes = row.scopes
           /\ s[row.from].revoked # Never /\ n <= s[row.from].revoked
  PROVE  Rows(Append(s, row), n)
<1> DEFINE new == Append(s, row)
           last == Len(s) + 1
<1>1. /\ new \in Seq(KeyRow) /\ DOMAIN new = DOMAIN s \cup {last} /\ last \notin DOMAIN s
      /\ \A j \in DOMAIN s : new[j] = s[j]
      /\ new[last] = row
  BY Appended DEF Rows
<1>2. \A j \in DOMAIN s : j < last
  BY DEF Rows
<1> HIDE DEF new, last
<1>3. ASSUME NEW j \in DOMAIN s PROVE RowOK(new, j, n)
  <2>1. RowOK(s, j, n) /\ s \in Seq(KeyRow)
    BY DEF Rows
  <2>2. s[j].from # 0 => s[j].from \in DOMAIN s
    BY PredecessorIsRow
  <2> QED
    BY <1>1, <2>1, <2>2 DEF RowOK
<1>4. RowOK(new, last, n)
  BY <1>1, <1>2 DEF RowOK, KeyRow
<1> QED
  BY <1>1, <1>3, <1>4 DEF Rows, new

Rotation == [key : Nat, unretired : BOOLEAN]

\* What is left to show of a step that writes rows: who is rotating.
LEMMA WrittenStep ==
  ASSUME KeysInv, Rows(key', now), UNCHANGED now, DOMAIN key \subseteq DOMAIN key',
         \/ UNCHANGED rotating
         \/ \E p \in Processes : rotating' = [rotating EXCEPT ![p] = Idle]
  PROVE  KeysInv'
<1>1. Rows(key, now)' /\ (now \in Nat \ {0})'
  BY KeysInvIsRows
<1>2. (rotating \in [Processes -> Rotation])'
  <2>1. rotating \in [Processes -> Rotation] /\ Idle \in Rotation
    BY KeysInvIsRows DEF Rotation, Idle
  <2> QED
    BY <2>1
<1>3. \A p \in Processes : rotating'[p] = Idle \/ rotating'[p] = rotating[p]
  BY KeysInvIsRows
<1>4. (\A p \in Processes : rotating[p] = Idle \/ (rotating[p].key \in Ids /\ rotating[p].unretired))'
  BY <1>3, KeysInvIsRows DEF Ids, Idle
<1> QED
  BY <1>1, <1>2, <1>4, KeysInvIsRows DEF Rotation, Idle, Ids, KeysInv, KeysTypeOK, Lineage, RowsOfThePast, Found, Rows, RowOK

LEMMA AuthenticateOK ==
  ASSUME KeysInv, NEW k \in Ids, Authenticate(k)
  PROVE  KeysInv'
<1>1. Rows(key, now) /\ now \in Nat \ {0} /\ k \in DOMAIN key
  BY KeysInvIsRows DEF Ids
<1>2. key[k].expires \in Nat
  BY <1>1, PredecessorIsRow DEF KeyRow
<1>3. key[k].expires = Never \/ now < key[k].expires
  BY <1>1, <1>2 DEF Authenticate, Expired
<1>4. key' = [key EXCEPT ![k] = WithUsed(key[k], now)] /\ UNCHANGED <<rotating, now>>
  <2>1. [key EXCEPT ![k].used = now] = [key EXCEPT ![k] = WithUsed(key[k], now)]
    BY DEF WithUsed
  <2> QED
    BY <2>1 DEF Authenticate
<1>5. Rows(key', now)
  BY <1>1, <1>3, <1>4, TouchedRows
<1> QED
  BY <1>4, <1>5, WrittenStep

LEMMA RevokeOK ==
  ASSUME KeysInv, NEW k \in Ids, MemberRevoke(k) \/ OperatorRevoke(k)
  PROVE  KeysInv'
<1>1. Rows(key, now) /\ now \in Nat \ {0} /\ k \in DOMAIN key
  BY KeysInvIsRows DEF Ids
<1>2. /\ key' = key \/ key' = [key EXCEPT ![k] = WithRevoked(key[k], now)]
      /\ UNCHANGED <<rotating, now>>
  <2>1. [key EXCEPT ![k].revoked = now] = [key EXCEPT ![k] = WithRevoked(key[k], now)]
    BY DEF WithRevoked
  <2> QED
    BY <2>1 DEF MemberRevoke, OperatorRevoke, revoke
<1>3. Rows(key', now)
  BY <1>1, <1>2, RetiredRows
<1> QED
  BY <1>2, <1>3, WrittenStep

\* A key that is issued, with or without a predecessor, is a row of now.
LEMMA IssuedRow ==
  ASSUME KeysInv, NEW t \in Tenants, NEW by \in {"member", "operator"}, NEW scopes \in Scopes,
         NEW days \in Nat, NEW from \in Nat
  PROVE  /\ issue(t, by, scopes, days, from) \in KeyRow
         /\ issue(t, by, scopes, days, from).created = now
         /\ issue(t, by, scopes, days, from).used = Never
         /\ issue(t, by, scopes, days, from).from = from
         /\ issue(t, by, scopes, days, from).tenant = t
         /\ issue(t, by, scopes, days, from).scopes = scopes
BY KeysInvIsRows DEF issue, KeyRow, Never

LEMMA IssueOK ==
  ASSUME KeysInv, NEW t \in Tenants, NEW scopes \in Scopes,
         MemberIssue(t, scopes) \/ (\E days \in Lifetimes : OperatorIssue(t, scopes, days))
  PROVE  KeysInv'
<1>1. PICK by \in {"member", "operator"}, d \in Nat :
        key' = Append(key, issue(t, by, scopes, d, 0)) /\ UNCHANGED <<rotating, now>>
  BY KeysAssumption DEF MemberIssue, OperatorIssue, Insert, Never
<1> DEFINE row == issue(t, by, scopes, d, 0)
<1>2. Rows(key, now) /\ now \in Nat \ {0}
  BY KeysInvIsRows
<1>3. row \in KeyRow /\ row.created = now /\ row.used = Never /\ row.from = 0
  BY IssuedRow
<1> HIDE DEF row
<1>4. Rows(Append(key, row), now)
  BY <1>2, <1>3, AppendedRows
<1>5. DOMAIN key \subseteq DOMAIN Append(key, row)
  BY <1>2, <1>3, Appended DEF Rows
<1> QED
  BY <1>1, <1>4, <1>5, WrittenStep DEF row

\* The transaction of rotate: the row it found is retired, its replacement
\* carries on where it was.
LEMMA ReplaceOK ==
  ASSUME KeysInv, NEW p \in Processes, ~Free(p), NEW by \in {"member", "operator"},
         NEW grace \in Nat, NEW days \in Nat, replace(p, by, grace, days),
         rotating' = [rotating EXCEPT ![p] = Idle], UNCHANGED now
  PROVE  KeysInv'
<1> DEFINE k   == rotating[p].key
           old == [key EXCEPT ![k] = WithRevoked(key[k], now + grace)]
           row == issue(key[k].tenant, by, key[k].scopes, days, k)
<1>1. key' = Append(old, row)
  <2>1. [key EXCEPT ![k].revoked = now + grace] = old
    BY DEF WithRevoked
  <2> HIDE DEF old
  <2> QED
    BY <2>1 DEF replace
<1>2. Rows(key, now) /\ now \in Nat \ {0} /\ k \in DOMAIN key
  BY KeysInvIsRows DEF Free, Ids
<1>3. key[k] \in KeyRow /\ key \in Seq(KeyRow) /\ k \in Nat
  BY <1>2, PredecessorIsRow DEF Rows
<1>4. /\ row \in KeyRow /\ row.created = now /\ row.used = Never /\ row.from = k
      /\ row.tenant = key[k].tenant /\ row.scopes = key[k].scopes
  <2>1. key[k].tenant \in Tenants /\ key[k].scopes \in Scopes
    BY <1>3 DEF KeyRow
  <2> QED
    BY <1>3, <2>1, IssuedRow
<1>5. Rows(old, now)
  BY <1>2, RetiredRows
<1>6. DOMAIN old = DOMAIN key /\ old[k] = WithRevoked(key[k], now + grace)
  BY <1>2, <1>3, RowRewritten, Replaced
<1>7. /\ old[k].tenant = key[k].tenant /\ old[k].scopes = key[k].scopes
      /\ old[k].revoked = now + grace
  <2>1. now + grace \in Nat
    BY <1>2
  <2>2. \A x \in KeyRow : /\ WithRevoked(x, now + grace).tenant = x.tenant
                          /\ WithRevoked(x, now + grace).scopes = x.scopes
                          /\ WithRevoked(x, now + grace).revoked = now + grace
    BY <2>1, RowRewritten
  <2> QED
    BY <1>3, <1>6, <2>2
<1> HIDE DEF k, old, row
<1>8. Rows(Append(old, row), now)
  BY <1>2, <1>4, <1>5, <1>6, <1>7, AppendedRows DEF Never
<1>9. DOMAIN key \subseteq DOMAIN Append(old, row)
  BY <1>4, <1>5, <1>6, Appended DEF Rows
<1> QED
  BY <1>1, <1>8, <1>9, WrittenStep

LEMMA FindOK ==
  ASSUME KeysInv, NEW k \in Ids, NEW p \in Processes, findForRotation(p, k), UNCHANGED <<key, now>>
  PROVE  KeysInv'
<1>1. Rows(key, now)' /\ (now \in Nat \ {0})'
  BY KeysInvIsRows
<1>2. k \in Nat
  BY KeysInvIsRows DEF Ids, Rows
<1>3. (rotating \in [Processes -> [key : Nat, unretired : BOOLEAN]])'
  BY <1>2, KeysInvIsRows DEF findForRotation
<1>4. (\A q \in Processes : rotating[q] = Idle \/ (rotating[q].key \in Ids /\ rotating[q].unretired))'
  BY KeysInvIsRows DEF findForRotation, Ids
<1> QED
  BY <1>1, <1>3, <1>4 DEF Idle, Ids, KeysInv, KeysTypeOK, Lineage, RowsOfThePast, Found, Rows, RowOK

LEMMA TickOK ==
  ASSUME KeysInv, Tick
  PROVE  KeysInv'
<1>1. Rows(key, now) /\ now \in Nat \ {0} /\ now' = now + 1 /\ UNCHANGED <<key, rotating>>
  BY KeysInvIsRows DEF Tick
<1>2. \A k \in DOMAIN key : RowOK(key, k, now')
  <2> TAKE k \in DOMAIN key
  <2>1. RowOK(key, k, now) /\ key[k].created \in Nat
    BY <1>1, PredecessorIsRow DEF Rows
  <2> QED
    BY <1>1, <2>1 DEF RowOK
<1>3. Rows(key, now)'
  BY <1>1, <1>2 DEF Rows
<1> QED
  BY <1>1, <1>3, KeysInvIsRows DEF Idle, Ids, KeysInv, KeysTypeOK, Lineage, RowsOfThePast, Found, Rows, RowOK

LEMMA MemberOK ==
  ASSUME KeysInv, Member
  PROVE  KeysInv'
<1>1. CASE \E t \in Tenants, scopes \in Scopes : MemberIssue(t, scopes)
  BY <1>1, IssueOK
<1>2. CASE \E k \in Ids : MemberRevoke(k)
  BY <1>2, RevokeOK
<1>3. CASE \E k \in Ids : MemberRotate(k)
  BY <1>3, FindOK DEF MemberRotate, Processes
<1>4. CASE \E grace \in Graces : MemberReplace(grace)
  BY <1>4, ReplaceOK, KeysAssumption DEF MemberReplace, Processes, Never
<1> QED
  BY <1>1, <1>2, <1>3, <1>4 DEF Member

LEMMA OperatorOK ==
  ASSUME KeysInv, Operator
  PROVE  KeysInv'
<1>1. CASE \E t \in Tenants, scopes \in Scopes, days \in Lifetimes : OperatorIssue(t, scopes, days)
  BY <1>1, IssueOK
<1>2. CASE \E k \in Ids : OperatorRevoke(k)
  BY <1>2, RevokeOK
<1>3. CASE \E k \in Ids : OperatorRotate(k)
  BY <1>3, FindOK DEF OperatorRotate, Processes
<1>4. CASE \E grace \in Graces, days \in Lifetimes : OperatorReplace(grace, days)
  BY <1>4, ReplaceOK, KeysAssumption DEF OperatorReplace, Processes
<1> QED
  BY <1>1, <1>2, <1>3, <1>4 DEF Operator

\* KeysInv holds in every reachable state: it is inductive.
THEOREM KeysInvariant == Spec => []KeysInv
<1>1. Init => KeysInv
  BY DEF Init, KeysInv, KeysTypeOK, Lineage, RowsOfThePast, Found, Ids, Idle, Processes
<1>2. KeysInv /\ [Next]_keyVars => KeysInv'
  <2> SUFFICES ASSUME KeysInv, [Next]_keyVars PROVE KeysInv'
    OBVIOUS
  <2>1. CASE Member
    BY <2>1, MemberOK
  <2>2. CASE Operator
    BY <2>2, OperatorOK
  <2>3. CASE \E k \in Ids : Authenticate(k)
    BY <2>3, AuthenticateOK
  <2>4. CASE \E p \in Processes : ReplaceFails(p)
    <3>1. Rows(key', now) /\ UNCHANGED <<key, now>>
      BY <2>4, KeysInvIsRows DEF ReplaceFails
    <3> QED
      BY <2>4, <3>1, WrittenStep DEF ReplaceFails
  <2>5. CASE Tick
    BY <2>5, TickOK
  <2>6. CASE UNCHANGED keyVars
    <3>1. Rows(key', now) /\ UNCHANGED <<key, rotating, now>>
      BY <2>6, KeysInvIsRows DEF keyVars
    <3> QED
      BY <3>1, WrittenStep
  <2> QED
    BY <2>1, <2>2, <2>3, <2>4, <2>5, <2>6 DEF Next
<1> QED
  BY <1>1, <1>2, PTL DEF Spec

\* The rows are well typed, and no use of a key is recorded once it expired.
THEOREM KeysTypeCorrect == Spec => []KeysTypeOK
<1>1. KeysInv => KeysTypeOK
  BY DEF KeysInv
<1> QED
  BY <1>1, KeysInvariant, PTL

\* However revocations and rotations of the service and of the operator
\* interleave, a replacement has the tenant and the scopes of its predecessor,
\* which is retired and was usable until the replacement was there.
THEOREM LineageKept == Spec => []Lineage
<1>1. KeysInv => Lineage
  BY DEF KeysInv
<1> QED
  BY <1>1, KeysInvariant, PTL

(***************************************************************************)
(* Dead keys.                                                              *)
(***************************************************************************)
\* A row that a step leaves or only marks as used keeps its verdict; a row that
\* is retired keeps its expiry.
LEMMA StaysDead ==
  ASSUME KeysInv, NEW k \in Ids, ~Valid(k), k \in DOMAIN key', now' \in Nat, now <= now',
         key'[k].expires = key[k].expires,
         key'[k].revoked = key[k].revoked \/ key[k].revoked = Never
  PROVE  ~Valid(k)'
<1>1. key[k] \in KeyRow /\ now \in Nat
  BY KeysInvIsRows, PredecessorIsRow DEF Ids
<1>2. key[k].expires \in Nat /\ key[k].revoked \in Nat
  BY <1>1 DEF KeyRow
<1> QED
  BY <1>1, <1>2 DEF Valid, Expired, Retired, Never

\* What a step may do to row k: it keeps the expiry, and changes a revocation
\* only from NULL, or as the rotation of that key.
Kept(k) ==
  /\ k \in DOMAIN key' /\ key'[k].expires = key[k].expires
  /\ \/ key'[k].revoked = key[k].revoked \/ key[k].revoked = Never
     \/ \E p \in Processes : rotating[p].key = k /\ rotating[p].unretired /\ rotating'[p] = Idle

LEMMA AppendKeeps ==
  ASSUME KeysInv, NEW k \in Ids, NEW row \in KeyRow, key' = Append(key, row)
  PROVE  Kept(k)
<1>1. k \in DOMAIN key' /\ key'[k] = key[k]
  BY KeysInvIsRows, Appended DEF Ids, Rows
<1> QED
  BY <1>1 DEF Kept

LEMMA RewriteKeeps ==
  ASSUME KeysInv, NEW k \in Ids, NEW j \in Ids,
         \/ key' = [key EXCEPT ![j].used = now]
         \/ key[j].revoked = Never /\ key' = [key EXCEPT ![j].revoked = now]
  PROVE  Kept(k)
<1>1. k \in DOMAIN key /\ j \in DOMAIN key /\ key[k] \in KeyRow
  BY KeysInvIsRows, PredecessorIsRow DEF Ids
<1>2. DOMAIN key' = DOMAIN key
  BY <1>1
<1>3. CASE key' = [key EXCEPT ![j].used = now]
  <2>1. key'[k].expires = key[k].expires /\ key'[k].revoked = key[k].revoked
    BY <1>1, <1>3 DEF KeyRow
  <2> QED
    BY <1>1, <1>2, <2>1 DEF Kept
<1>4. CASE key[j].revoked = Never /\ key' = [key EXCEPT ![j].revoked = now]
  <2>1. key'[k].expires = key[k].expires /\ (k # j => key'[k].revoked = key[k].revoked)
    BY <1>1, <1>4 DEF KeyRow
  <2> QED
    BY <1>1, <1>2, <1>4, <2>1 DEF Kept
<1> QED
  BY <1>3, <1>4

LEMMA ReplaceKeeps ==
  ASSUME KeysInv, NEW k \in Ids, NEW p \in Processes, ~Free(p),
         NEW by \in {"member", "operator"}, NEW grace \in Nat, NEW days \in Nat,
         replace(p, by, grace, days), rotating' = [rotating EXCEPT ![p] = Idle]
  PROVE  Kept(k)
<1> DEFINE j   == rotating[p].key
           old == [key EXCEPT ![j].revoked = now + grace]
           row == issue(key[j].tenant, by, key[j].scopes, days, j)
<1>1. key' = Append(old, row)
  BY DEF replace
<1>2. j \in DOMAIN key /\ k \in DOMAIN key /\ key \in Seq(KeyRow) /\ rotating[p].unretired
  BY KeysInvIsRows DEF Free, Ids, Rows
<1>3. key[k] \in KeyRow /\ key[j] \in KeyRow /\ now + grace \in Nat /\ j \in Nat
  BY <1>2, KeysInvIsRows, PredecessorIsRow DEF Rows
<1>4. old \in Seq(KeyRow) /\ DOMAIN old = DOMAIN key
  <2>1. old = [key EXCEPT ![j] = WithRevoked(key[j], now + grace)]
    BY DEF WithRevoked
  <2>2. WithRevoked(key[j], now + grace) \in KeyRow
    BY <1>3, RowRewritten
  <2> HIDE DEF old
  <2> QED
    BY <1>2, <2>1, <2>2, Replaced
<1>5. old[k].expires = key[k].expires /\ (k # j => old[k].revoked = key[k].revoked)
  BY <1>2, <1>3 DEF KeyRow
<1>6. row \in KeyRow
  <2>1. key[j].tenant \in Tenants /\ key[j].scopes \in Scopes
    BY <1>3 DEF KeyRow
  <2> QED
    BY <1>3, <2>1, IssuedRow
<1>7. rotating'[p] = Idle
  BY KeysInvIsRows
<1> HIDE DEF old, row
<1>8. k \in DOMAIN key' /\ key'[k] = old[k]
  BY <1>1, <1>2, <1>4, <1>6, Appended
<1> QED
  BY <1>2, <1>5, <1>7, <1>8 DEF Kept

\* A key that is expired or retired is never valid again, except for the key a
\* process found unrevoked before the other process revoked it.
THEOREM DeadKeysStayDead == Spec => DeadKeyStaysDead
<1>1. ASSUME KeysInv, KeysInv', Next, NEW k \in Ids, ~Valid(k)
      PROVE  \/ ~Valid(k)'
             \/ \E p \in Processes : rotating[p].key = k /\ rotating[p].unretired /\ rotating'[p] = Idle
  <2>1. now \in Nat /\ now' \in Nat /\ now <= now'
    BY <1>1, KeysInvIsRows
       DEF Next, Member, Operator, Authenticate, ReplaceFails, Tick, MemberIssue, MemberRevoke,
           MemberRotate, MemberReplace, OperatorIssue, OperatorRevoke, OperatorRotate, OperatorReplace
  <2>2. Kept(k)
    <3>1. CASE UNCHANGED key
      BY <3>1 DEF Kept, Ids
    <3>2. CASE \E t \in Tenants, scopes \in Scopes :
                 \/ MemberIssue(t, scopes)
                 \/ \E days \in Lifetimes : OperatorIssue(t, scopes, days)
      <4>1. PICK t \in Tenants, scopes \in Scopes, by \in {"member", "operator"}, days \in Nat :
              key' = Append(key, issue(t, by, scopes, days, 0))
        BY <3>2, KeysAssumption DEF MemberIssue, OperatorIssue, Insert, Never
      <4> QED
        BY <1>1, <4>1, IssuedRow, AppendKeeps
    <3>3. CASE \E j \in Ids : MemberRevoke(j) \/ OperatorRevoke(j)
      <4>1. PICK j \in Ids : revoke(j)
        BY <3>3 DEF MemberRevoke, OperatorRevoke
      <4> QED
        BY <1>1, <3>1, <4>1, RewriteKeeps DEF revoke
    <3>4. CASE \E j \in Ids : Authenticate(j)
      BY <1>1, <3>4, RewriteKeeps DEF Authenticate
    <3>5. CASE \E grace \in Graces : MemberReplace(grace)
      BY <1>1, <3>5, ReplaceKeeps, KeysAssumption DEF MemberReplace, Processes, Never
    <3>6. CASE \E grace \in Graces, days \in Lifetimes : OperatorReplace(grace, days)
      BY <1>1, <3>6, ReplaceKeeps, KeysAssumption DEF OperatorReplace, Processes
    <3> QED
      BY <1>1, <3>1, <3>2, <3>3, <3>4, <3>5, <3>6
         DEF Next, Member, Operator, MemberRotate, OperatorRotate, ReplaceFails, Tick
  <2> QED
    BY <1>1, <2>1, <2>2, StaysDead DEF Kept
<1>2. KeysInv /\ KeysInv' /\ [Next]_keyVars =>
        [\A k \in Ids : ~Valid(k) =>
           \/ ~Valid(k)'
           \/ \E p \in Processes : /\ rotating[p].key = k /\ rotating[p].unretired
                                   /\ rotating'[p] = Idle]_keyVars
  BY <1>1
<1> QED
  BY <1>2, KeysInvariant, PTL DEF DeadKeyStaysDead, Spec

(***************************************************************************)
(* Keys are counted.                                                       *)
(***************************************************************************)
\* The replacements of a key among the rows s, and the rotations under way that
\* found it.
From(s, k) == {j \in DOMAIN s : s[j].from = k}
Pending(r, k) == {p \in Processes : r[p] # Idle /\ r[p].key = k}

\* The member's keys of a tenant that count against the limit at time n, and
\* those that did when key k was made.
MemberSince(s, t, n) == {j \in DOMAIN s : s[j].tenant = t /\ s[j].by = "member" /\ s[j].created + Day >= n}
MemberUpTo(s, k) ==
  {j \in DOMAIN s : /\ s[j].tenant = s[k].tenant /\ s[j].by = "member"
                    /\ j <= k /\ s[j].created + Day >= s[k].created}

\* A rotation that found its key is counted as its replacement, and the
\* service's as the member's key it will be.
CountsInv ==
  /\ \A k \in Ids : Cardinality(From(key, k)) + Cardinality(Pending(rotating, k)) <= Cardinality(Processes)
  /\ \A k \in Ids : key[k].by = "member" => Cardinality(MemberUpTo(key, k)) <= DailyLimit
  /\ rotating["service"] # Idle =>
       Cardinality(MemberSince(key, key[rotating["service"].key].tenant, now)) < DailyLimit

\* Every one of these sets is finite.
LEMMA Counted ==
  ASSUME NEW s \in Seq(KeyRow), NEW T \in SUBSET DOMAIN s
  PROVE  IsFiniteSet(T) /\ Cardinality(T) \in Nat
<1>1. DOMAIN s = 1 .. Len(s) /\ Len(s) \in Nat
  OBVIOUS
<1>2. IsFiniteSet(1 .. Len(s))
  BY <1>1, FS_Interval
<1>3. IsFiniteSet(T)
  BY <1>1, <1>2, FS_Subset
<1> QED
  BY <1>3, FS_CardinalityType

LEMMA FewProcesses ==
  /\ Cardinality(Processes) = 2
  /\ \A T \in SUBSET Processes : /\ IsFiniteSet(T) /\ Cardinality(T) \in Nat
                                 /\ Cardinality(T) <= Cardinality(Processes)
<1>1. IsFiniteSet({"service"}) /\ Cardinality({"service"}) = 1
  BY FS_Singleton
<1>2. Processes = {"service"} \cup {"cli"} /\ "cli" \notin {"service"}
  BY DEF Processes
<1>3. IsFiniteSet(Processes) /\ Cardinality(Processes) = 2
  BY <1>1, <1>2, FS_AddElement
<1>4. ASSUME NEW T \in SUBSET Processes
      PROVE  IsFiniteSet(T) /\ Cardinality(T) \in Nat /\ Cardinality(T) <= Cardinality(Processes)
  <2>1. IsFiniteSet(T) /\ Cardinality(T) <= Cardinality(Processes)
    BY <1>3, FS_Subset
  <2> QED
    BY <2>1, FS_CardinalityType
<1> QED
  BY <1>3, <1>4

\* What is counted of a row never changes.
SameRow(x, y) == x.tenant = y.tenant /\ x.by = y.by /\ x.from = y.from /\ x.created = y.created

LEMMA RewrittenCounts ==
  ASSUME NEW s, NEW u, DOMAIN u = DOMAIN s, \A j \in DOMAIN s : SameRow(u[j], s[j])
  PROVE  /\ \A k : From(u, k) = From(s, k)
         /\ \A k \in DOMAIN s : MemberUpTo(u, k) = MemberUpTo(s, k)
         /\ \A t, n : MemberSince(u, t, n) = MemberSince(s, t, n)
BY DEF SameRow, From, MemberUpTo, MemberSince

LEMMA AddedCounts ==
  ASSUME NEW s \in Seq(KeyRow), NEW u, NEW row, NEW n, n = Len(s) + 1,
         DOMAIN u = DOMAIN s \cup {n}, \A j \in DOMAIN s : SameRow(u[j], s[j]), u[n] = row
  PROVE  /\ n \notin DOMAIN s
         /\ \A k : From(u, k) = IF row.from = k THEN From(s, k) \cup {n} ELSE From(s, k)
         /\ \A k \in DOMAIN s : MemberUpTo(u, k) = MemberUpTo(s, k)
         /\ MemberUpTo(u, n) \subseteq MemberSince(s, row.tenant, row.created) \cup {n}
         /\ row.by # "member" => \A t, m : MemberSince(u, t, m) = MemberSince(s, t, m)
<1>1. n \notin DOMAIN s /\ \A j \in DOMAIN s : j < n /\ ~(n <= j)
  OBVIOUS
<1>2. DOMAIN u = DOMAIN s \cup {n} /\ u[n] = row
  OBVIOUS
<1>3. \A k : From(u, k) = IF row.from = k THEN From(s, k) \cup {n} ELSE From(s, k)
  BY <1>1, <1>2 DEF SameRow, From
<1>4. \A k \in DOMAIN s : MemberUpTo(u, k) = MemberUpTo(s, k)
  <2> TAKE k \in DOMAIN s
  <2>1. ~(n <= k)
    BY <1>1
  <2> QED
    BY <1>2, <2>1 DEF SameRow, MemberUpTo
<1>5. MemberUpTo(u, n) \subseteq MemberSince(s, row.tenant, row.created) \cup {n}
  BY <1>2 DEF SameRow, MemberUpTo, MemberSince
<1>6. row.by # "member" => \A t, m : MemberSince(u, t, m) = MemberSince(s, t, m)
  BY <1>2 DEF SameRow, MemberSince
<1> QED
  BY <1>1, <1>3, <1>4, <1>5, <1>6

\* What the counts need of the rows and of who is rotating.
LEMMA RowsKnown ==
  ASSUME KeysInv
  PROVE  /\ key \in Seq(KeyRow) /\ Len(key) \in Nat /\ Ids = 1 .. Len(key) /\ DOMAIN key = Ids
         /\ now \in Nat
         /\ \A k \in Ids : key[k] \in KeyRow /\ key[k].created \in Nat
         /\ \A k \in Ids : key[k].from # 0 => key[k].from \in Ids /\ key[key[k].from].revoked # Never
         /\ DOMAIN rotating = Processes
         /\ \A p \in Processes : rotating[p] = Idle \/ rotating[p].key \in Ids
<1>1. Rows(key, now) /\ now \in Nat /\ DOMAIN rotating = Processes
      /\ \A p \in Processes : rotating[p] = Idle \/ rotating[p].key \in Ids
  BY KeysInvIsRows
<1>2. key \in Seq(KeyRow) /\ Len(key) \in Nat /\ Ids = 1 .. Len(key) /\ DOMAIN key = Ids
  BY <1>1 DEF Rows, Ids
<1>3. ASSUME NEW k \in Ids
      PROVE  /\ key[k] \in KeyRow /\ key[k].created \in Nat
             /\ key[k].from # 0 => key[k].from \in Ids /\ key[key[k].from].revoked # Never
  BY <1>1, <1>2, PredecessorIsRow DEF Rows, RowOK
<1> QED
  BY <1>1, <1>2, <1>3

\* A step that writes rows but issues none.
LEMMA RewriteCounts ==
  ASSUME KeysInv, CountsInv, DOMAIN key' = DOMAIN key, \A j \in DOMAIN key : SameRow(key'[j], key[j]),
         UNCHANGED <<rotating, now>>
  PROVE  CountsInv'
<1>1. /\ \A k : From(key', k) = From(key, k)
      /\ \A k \in DOMAIN key : MemberUpTo(key', k) = MemberUpTo(key, k)
      /\ \A t, n : MemberSince(key', t, n) = MemberSince(key, t, n)
  BY RewrittenCounts
<1>2. Ids' = Ids /\ DOMAIN key = Ids
  BY DEF Ids
<1>3. \A k \in Ids : key'[k].by = key[k].by /\ key'[k].tenant = key[k].tenant
  BY <1>2 DEF SameRow
<1>4. rotating["service"] # Idle => rotating["service"].key \in Ids
  BY RowsKnown DEF Processes
<1> QED
  BY <1>1, <1>2, <1>3, <1>4 DEF CountsInv

LEMMA AuthenticateCounts ==
  ASSUME KeysInv, CountsInv, NEW k \in Ids, Authenticate(k)
  PROVE  CountsInv'
<1>1. key' = [key EXCEPT ![k].used = now] /\ UNCHANGED <<rotating, now>>
  BY DEF Authenticate
<1>2. DOMAIN key' = DOMAIN key /\ \A j \in DOMAIN key : SameRow(key'[j], key[j])
  BY <1>1, RowsKnown DEF SameRow, KeyRow
<1> QED
  BY <1>1, <1>2, RewriteCounts

LEMMA RevokeCounts ==
  ASSUME KeysInv, CountsInv, NEW k \in Ids, MemberRevoke(k) \/ OperatorRevoke(k)
  PROVE  CountsInv'
<1>1. key' = key \/ key' = [key EXCEPT ![k].revoked = now]
  BY DEF MemberRevoke, OperatorRevoke, revoke
<1>2. UNCHANGED <<rotating, now>>
  BY DEF MemberRevoke, OperatorRevoke
<1>3. \A j \in DOMAIN key : key[j] \in KeyRow
  BY RowsKnown
<1>4. DOMAIN key' = DOMAIN key /\ \A j \in DOMAIN key : SameRow(key'[j], key[j])
  <2>1. CASE key' = key
    BY <2>1 DEF SameRow
  <2>2. CASE key' = [key EXCEPT ![k].revoked = now]
    BY <1>3, <2>2 DEF SameRow, KeyRow
  <2> QED
    BY <1>1, <2>1, <2>2
<1> QED
  BY <1>2, <1>4, RewriteCounts

\* A key that is new has no replacement, and nobody rotates it.
LEMMA NobodyKnows ==
  ASSUME KeysInv
  PROVE  From(key, Len(key) + 1) = {} /\ Pending(rotating, Len(key) + 1) = {}
BY RowsKnown DEF From, Pending

\* A rotation under way is counted in From when it ends.
LEMMA FindCounts ==
  ASSUME KeysInv, CountsInv, NEW k \in Ids, NEW p \in Processes,
         findForRotation(p, k), UNCHANGED <<key, now>>,
         p = "service" => keysIssuedToday(key[k].tenant) < DailyLimit
  PROVE  CountsInv'
<1>1. /\ key[k].revoked = Never
      /\ rotating' = [rotating EXCEPT ![p] = [key |-> k, unretired |-> TRUE]]
  BY DEF findForRotation
<1>2. ASSUME NEW j \in Ids
      PROVE  Cardinality(From(key, j)) + Cardinality(Pending(rotating', j)) <= Cardinality(Processes)
  <2>1. CASE j = k
    <3>1. From(key, j) = {}
      BY <1>1, <2>1, RowsKnown DEF From
    <3>2. Pending(rotating', j) \in SUBSET Processes
      BY DEF Pending
    <3>3. /\ Cardinality(Pending(rotating', j)) \in Nat
          /\ Cardinality(Pending(rotating', j)) <= Cardinality(Processes)
      BY <3>2, FewProcesses
    <3>4. Cardinality(From(key, j)) = 0
      BY <3>1, FS_EmptySet
    <3> QED
      BY <3>3, <3>4
  <2>2. CASE j # k
    <3>1. Pending(rotating', j) \in SUBSET Pending(rotating, j)
      BY <1>1, <2>2, RowsKnown DEF Pending
    <3>2. Pending(rotating, j) \in SUBSET Processes /\ From(key, j) \in SUBSET DOMAIN key
      BY DEF Pending, From
    <3>3. /\ Cardinality(Pending(rotating', j)) <= Cardinality(Pending(rotating, j))
          /\ Cardinality(Pending(rotating', j)) \in Nat /\ Cardinality(Pending(rotating, j)) \in Nat
      BY <3>1, <3>2, FewProcesses, FS_Subset
    <3>4. Cardinality(From(key, j)) \in Nat
      BY <3>2, RowsKnown, Counted
    <3>5. Cardinality(From(key, j)) + Cardinality(Pending(rotating, j)) <= Cardinality(Processes)
      BY DEF CountsInv
    <3>6. Cardinality(Processes) = 2
      BY FewProcesses
    <3> QED
      BY <3>3, <3>4, <3>5, <3>6
  <2> QED
    BY <2>1, <2>2
<1>3. ASSUME rotating'["service"] # Idle
      PROVE  Cardinality(MemberSince(key, key[rotating'["service"].key].tenant, now)) < DailyLimit
  <2>1. CASE p # "service"
    <3>1. rotating'["service"] = rotating["service"]
      BY <1>1, <2>1, RowsKnown
    <3> QED
      BY <1>3, <3>1 DEF CountsInv
  <2>2. CASE p = "service"
    <3> DEFINE t == key[k].tenant
               all == {j \in Ids : key[j].tenant = t /\ key[j].created + Day >= now}
    <3>1. rotating'["service"].key = k
      BY <1>1, <2>2, RowsKnown
    <3>2. Cardinality(all) < DailyLimit
      BY <2>2 DEF keysIssuedToday
    <3>3. MemberSince(key, t, now) \in SUBSET all /\ all \in SUBSET DOMAIN key
      BY RowsKnown DEF MemberSince
    <3> HIDE DEF all, t
    <3>4. IsFiniteSet(all) /\ Cardinality(all) \in Nat
      BY <3>3, RowsKnown, Counted
    <3>5. /\ Cardinality(MemberSince(key, t, now)) <= Cardinality(all)
          /\ Cardinality(MemberSince(key, t, now)) \in Nat
      BY <3>3, <3>4, FS_Subset, FS_CardinalityType
    <3>6. Cardinality(MemberSince(key, t, now)) < DailyLimit
      BY <3>2, <3>4, <3>5, KeysAssumption
    <3> QED
      BY <3>1, <3>6 DEF t
  <2> QED
    BY <2>1, <2>2
<1>4. UNCHANGED Ids
  BY DEF Ids
<1> QED
  BY <1>2, <1>3, <1>4 DEF CountsInv

\* A key of the member's is issued only below the limit, another one counts for
\* nobody.
LEMMA IssueCounts ==
  ASSUME KeysInv, CountsInv, NEW t \in Tenants, NEW scopes \in Scopes,
         MemberIssue(t, scopes) \/ (\E days \in Lifetimes : OperatorIssue(t, scopes, days))
  PROVE  CountsInv'
<1> DEFINE n == Len(key) + 1
<1>1. PICK by \in {"member", "operator"}, d \in Nat :
        /\ key' = Append(key, issue(t, by, scopes, d, 0)) /\ UNCHANGED <<rotating, now>>
        /\ by = "member" => Free("service") /\ keysIssuedToday(t) < DailyLimit
  BY KeysAssumption DEF MemberIssue, OperatorIssue, Insert, Never
<1> DEFINE row == issue(t, by, scopes, d, 0)
<1>2. row \in KeyRow /\ row.created = now /\ row.from = 0 /\ row.tenant = t /\ row.by = by
  BY IssuedRow DEF issue
<1> HIDE DEF row
<1>3. /\ key \in Seq(KeyRow) /\ DOMAIN key = Ids /\ Len(key) \in Nat /\ Ids = 1 .. Len(key)
      /\ \A j \in Ids : key[j].from # 0 => key[j].from \in Ids
  BY RowsKnown
<1>4. /\ DOMAIN key' = DOMAIN key \cup {n}
      /\ \A j \in DOMAIN key : key'[j] = key[j]
      /\ key'[n] = row
  BY <1>1, <1>2, <1>3, Appended DEF row
<1>5. \A j \in DOMAIN key : SameRow(key'[j], key[j])
  BY <1>4 DEF SameRow
<1>6. /\ n \notin DOMAIN key
      /\ \A k : From(key', k) = IF row.from = k THEN From(key, k) \cup {n} ELSE From(key, k)
      /\ \A k \in DOMAIN key : MemberUpTo(key', k) = MemberUpTo(key, k)
      /\ MemberUpTo(key', n) \subseteq MemberSince(key, row.tenant, row.created) \cup {n}
      /\ row.by # "member" => \A a, m : MemberSince(key', a, m) = MemberSince(key, a, m)
  <2>1. key \in Seq(KeyRow) /\ n = Len(key) + 1
    BY <1>3
  <2> HIDE DEF n
  <2> QED
    BY <1>4, <1>5, <2>1, AddedCounts
<1>7. Ids' = Ids \cup {n} /\ 0 \notin Ids'
  BY <1>3, <1>4 DEF Ids
<1>0. From(key, n) = {} /\ Pending(rotating, n) = {}
  BY NobodyKnows
<1> HIDE DEF n
<1>8. ASSUME NEW k \in Ids'
      PROVE  Cardinality(From(key', k)) + Cardinality(Pending(rotating', k)) <= Cardinality(Processes)
  <2>1. From(key', k) = From(key, k) /\ Pending(rotating', k) = Pending(rotating, k)
    BY <1>1, <1>2, <1>6, <1>7
  <2>2. CASE k \in Ids
    BY <2>1, <2>2 DEF CountsInv
  <2>3. CASE k = n
    BY <1>0, <2>1, <2>3, FS_EmptySet, FewProcesses
  <2> QED
    BY <1>7, <2>2, <2>3
<1>9. ASSUME NEW k \in Ids', key'[k].by = "member"
      PROVE  Cardinality(MemberUpTo(key', k)) <= DailyLimit
  <2>1. CASE k \in Ids
    BY <1>3, <1>4, <1>6, <1>9, <2>1 DEF CountsInv
  <2>2. CASE k = n
    <3> DEFINE all == {j \in Ids : key[j].tenant = t /\ key[j].created + Day >= now}
    <3>1. by = "member"
      BY <1>2, <1>4, <1>9, <2>2
    <3>2. Cardinality(all) < DailyLimit
      BY <1>1, <3>1 DEF keysIssuedToday
    <3>3. MemberSince(key, t, now) \subseteq all /\ all \in SUBSET DOMAIN key
      BY <1>3 DEF MemberSince
    <3> HIDE DEF all
    <3>4. IsFiniteSet(all) /\ Cardinality(all) \in Nat
      BY <1>3, <3>3, Counted
    <3>5. IsFiniteSet(all \cup {n}) /\ Cardinality(all \cup {n}) <= Cardinality(all) + 1
      BY <3>4, FS_AddElement
    <3>6. MemberUpTo(key', n) \in SUBSET (all \cup {n})
      BY <1>2, <1>6, <3>3
    <3>7. /\ Cardinality(MemberUpTo(key', n)) <= Cardinality(all \cup {n})
          /\ Cardinality(MemberUpTo(key', n)) \in Nat /\ Cardinality(all \cup {n}) \in Nat
      BY <3>5, <3>6, FS_Subset, FS_CardinalityType
    <3>8. Cardinality(MemberUpTo(key', n)) <= DailyLimit
      BY <3>2, <3>4, <3>5, <3>7, KeysAssumption
    <3> QED
      BY <2>2, <3>8
  <2> QED
    BY <1>7, <2>1, <2>2
<1>10. ASSUME rotating'["service"] # Idle
       PROVE  Cardinality(MemberSince(key', key'[rotating'["service"].key].tenant, now')) < DailyLimit
  <2>1. rotating["service"] # Idle /\ by # "member" /\ rotating' = rotating /\ now' = now
    BY <1>1, <1>10 DEF Free
  <2>2. rotating["service"].key \in Ids
    BY <2>1, RowsKnown DEF Processes
  <2>3. key'[rotating["service"].key] = key[rotating["service"].key]
    BY <1>3, <1>4, <2>2
  <2>4. \A a, m : MemberSince(key', a, m) = MemberSince(key, a, m)
    BY <1>2, <1>6, <2>1
  <2> QED
    BY <2>1, <2>3, <2>4 DEF CountsInv
<1> QED
  BY <1>8, <1>9, <1>10 DEF CountsInv

\* The end of a rotation: what was pending is there.  The service's own is the
\* one member's key it was counted for.
LEMMA ReplaceCounts ==
  ASSUME KeysInv, CountsInv, NEW p \in Processes, ~Free(p), NEW by \in {"member", "operator"},
         by = "member" <=> p = "service",
         NEW grace \in Nat, NEW days \in Nat, replace(p, by, grace, days),
         rotating' = [rotating EXCEPT ![p] = Idle], UNCHANGED now
  PROVE  CountsInv'
<1> DEFINE k0  == rotating[p].key
           old == [key EXCEPT ![k0].revoked = now + grace]
           t0  == key[k0].tenant
           s0  == key[k0].scopes
           row == issue(t0, by, s0, days, k0)
           n   == Len(key) + 1
<1>1. key' = Append(old, row)
  BY DEF replace
<1>2. /\ key \in Seq(KeyRow) /\ DOMAIN key = Ids /\ Len(key) \in Nat /\ Ids = 1 .. Len(key)
      /\ \A j \in Ids : key[j] \in KeyRow
      /\ now \in Nat /\ DOMAIN rotating = Processes
      /\ \A q \in Processes : rotating[q] = Idle \/ rotating[q].key \in Ids
  BY RowsKnown
<1>3. k0 \in Ids /\ k0 \in Nat /\ rotating[p] # Idle
  BY <1>2 DEF Free
<1>4. row \in KeyRow /\ row.created = now /\ row.from = k0 /\ row.tenant = key[k0].tenant /\ row.by = by
  <2>1. t0 \in Tenants /\ s0 \in Scopes
    BY <1>2, <1>3 DEF KeyRow
  <2>2. k0 \in Nat
    BY <1>3
  <2> HIDE DEF k0, t0, s0
  <2>3. row \in KeyRow
    BY <1>2, <2>1, <2>2, IssuedRow
  <2>4. row.created = now /\ row.from = k0 /\ row.tenant = t0 /\ row.by = by
    BY DEF issue
  <2> QED
    BY <2>3, <2>4 DEF t0
<1>5. old \in Seq(KeyRow) /\ DOMAIN old = Ids /\ Len(old) = Len(key)
      /\ \A j \in Ids : SameRow(old[j], key[j])
  <2> DEFINE x == [key[k0] EXCEPT !.revoked = now + grace]
  <2> HIDE DEF k0, t0, s0, row, n
  <2>0. key[k0] \in KeyRow /\ now + grace \in Nat
    BY <1>2, <1>3
  <2>1. x \in KeyRow /\ SameRow(x, key[k0])
    BY <2>0 DEF SameRow, KeyRow
  <2>2. old = [key EXCEPT ![k0] = x]
    OBVIOUS
  <2> HIDE DEF x
  <2>3. /\ [key EXCEPT ![k0] = x] \in Seq(KeyRow)
        /\ DOMAIN [key EXCEPT ![k0] = x] = DOMAIN key
        /\ Len([key EXCEPT ![k0] = x]) = Len(key)
        /\ \A j \in DOMAIN key : [key EXCEPT ![k0] = x][j] = IF j = k0 THEN x ELSE key[j]
    BY <1>2, <1>3, <2>1, Replaced
  <2> QED
    BY <1>2, <2>1, <2>2, <2>3 DEF SameRow
<1> HIDE DEF k0, t0, s0, old, row
<1>6. /\ DOMAIN key' = DOMAIN key \cup {n}
      /\ \A j \in DOMAIN key : key'[j] = old[j]
      /\ key'[n] = row
  BY <1>1, <1>2, <1>4, <1>5, Appended
<1>7. \A j \in DOMAIN key : SameRow(key'[j], key[j])
  BY <1>2, <1>5, <1>6
<1>8. From(key, n) = {} /\ Pending(rotating, n) = {} /\ n # k0 /\ n = Len(key) + 1
  BY <1>2, <1>3, NobodyKnows
<1> HIDE DEF n
<1>9. /\ n \notin DOMAIN key
      /\ \A k : From(key', k) = IF row.from = k THEN From(key, k) \cup {n} ELSE From(key, k)
      /\ \A k \in DOMAIN key : MemberUpTo(key', k) = MemberUpTo(key, k)
      /\ MemberUpTo(key', n) \subseteq MemberSince(key, row.tenant, row.created) \cup {n}
      /\ row.by # "member" => \A a, m : MemberSince(key', a, m) = MemberSince(key, a, m)
  BY <1>2, <1>6, <1>7, <1>8, AddedCounts
<1>10. Ids' = Ids \cup {n}
  BY <1>2, <1>6 DEF Ids
<1>11. \A k : Pending(rotating', k) = IF k = k0 THEN Pending(rotating, k) \ {p} ELSE Pending(rotating, k)
  BY <1>2, <1>3 DEF Pending, k0
<1>12. ASSUME NEW k \in Ids'
       PROVE  Cardinality(From(key', k)) + Cardinality(Pending(rotating', k)) <= Cardinality(Processes)
  <2>1. CASE k = n
    <3>1. From(key', k) = {} /\ Pending(rotating', k) = {}
      <4>1. From(key', n) = {}
        BY <1>4, <1>8, <1>9
      <4>2. Pending(rotating', n) = {}
        BY <1>8, <1>11
      <4> QED
        BY <2>1, <4>1, <4>2
    <3>2. Cardinality({}) = 0 /\ Cardinality(Processes) = 2
      BY FS_EmptySet, FewProcesses
    <3>3. Cardinality(From(key', k)) = 0 /\ Cardinality(Pending(rotating', k)) = 0
      BY <3>1, <3>2
    <3> QED
      BY <3>2, <3>3
  <2>2. CASE k \in Ids /\ k # k0
    <3>1. From(key', k) = From(key, k) /\ Pending(rotating', k) = Pending(rotating, k)
      BY <1>4, <1>9, <1>11, <2>2
    <3> QED
      BY <2>2, <3>1 DEF CountsInv
  <2>3. CASE k = k0
    <3>1. From(key', k) = From(key, k) \cup {n} /\ Pending(rotating', k) = Pending(rotating, k) \ {p}
      BY <1>4, <1>9, <1>11, <2>3
    <3>2. From(key, k) \in SUBSET DOMAIN key /\ Pending(rotating, k) \in SUBSET Processes
      BY DEF From, Pending
    <3>3. n \notin From(key, k) /\ p \in Pending(rotating, k)
      BY <1>3, <1>9, <2>3, <3>2 DEF Pending, k0
    <3>4. IsFiniteSet(From(key, k)) /\ Cardinality(From(key, k)) \in Nat
      BY <1>2, <3>2, Counted
    <3>5. IsFiniteSet(Pending(rotating, k)) /\ Cardinality(Pending(rotating, k)) \in Nat
      BY <3>2, FewProcesses
    <3>6. Cardinality(From(key', k)) = Cardinality(From(key, k)) + 1
      <4>1. Cardinality(From(key, k) \cup {n}) = Cardinality(From(key, k)) + 1
        BY <3>3, <3>4, FS_AddElement
      <4> QED
        BY <3>1, <4>1, Zenon
    <3>7. Cardinality(Pending(rotating', k)) = Cardinality(Pending(rotating, k)) - 1
      <4>1. Cardinality(Pending(rotating, k) \ {p}) = Cardinality(Pending(rotating, k)) - 1
        BY <3>3, <3>5, FS_RemoveElement
      <4> QED
        BY <3>1, <4>1, Zenon
    <3>8. Cardinality(From(key, k)) + Cardinality(Pending(rotating, k)) <= Cardinality(Processes)
      BY <1>3, <2>3 DEF CountsInv
    <3> QED
      BY <3>4, <3>5, <3>6, <3>7, <3>8
  <2> QED
    BY <1>10, <2>1, <2>2, <2>3
<1>13. ASSUME NEW k \in Ids', key'[k].by = "member"
       PROVE  Cardinality(MemberUpTo(key', k)) <= DailyLimit
  <2>1. CASE k \in Ids
    <3>1. key[k].by = "member"
      BY <1>2, <1>7, <1>13, <2>1 DEF SameRow
    <3> QED
      BY <1>2, <1>9, <2>1, <3>1 DEF CountsInv
  <2>2. CASE k = n
    <3> DEFINE since == MemberSince(key, row.tenant, now)
    <3>1. p = "service"
      BY <1>4, <1>6, <1>13, <2>2
    <3>2. Cardinality(since) < DailyLimit
      BY <1>3, <1>4, <3>1 DEF CountsInv, k0
    <3>3. since \in SUBSET DOMAIN key
      BY DEF MemberSince
    <3>4. MemberUpTo(key', n) \in SUBSET (since \cup {n})
      BY <1>4, <1>9
    <3> HIDE DEF since
    <3>5. IsFiniteSet(since) /\ Cardinality(since) \in Nat
      BY <1>2, <3>3, Counted
    <3>6. IsFiniteSet(since \cup {n}) /\ Cardinality(since \cup {n}) <= Cardinality(since) + 1
      BY <3>5, FS_AddElement
    <3>7. /\ Cardinality(MemberUpTo(key', n)) <= Cardinality(since \cup {n})
          /\ Cardinality(MemberUpTo(key', n)) \in Nat /\ Cardinality(since \cup {n}) \in Nat
      BY <3>4, <3>6, FS_Subset, FS_CardinalityType
    <3>8. Cardinality(MemberUpTo(key', n)) <= DailyLimit
      BY <3>2, <3>5, <3>6, <3>7, KeysAssumption
    <3> QED
      BY <2>2, <3>8
  <2> QED
    BY <1>10, <2>1, <2>2
<1>14. ASSUME rotating'["service"] # Idle
       PROVE  Cardinality(MemberSince(key', key'[rotating'["service"].key].tenant, now')) < DailyLimit
  <2>1. p # "service" /\ rotating'["service"] = rotating["service"] /\ rotating["service"] # Idle
    BY <1>2, <1>14
  <2>2. rotating["service"].key \in Ids
    BY <1>2, <2>1 DEF Processes
  <2>3. key'[rotating["service"].key].tenant = key[rotating["service"].key].tenant
    BY <1>2, <1>7, <2>2 DEF SameRow
  <2>4. \A a, m : MemberSince(key', a, m) = MemberSince(key, a, m)
    BY <1>4, <1>9, <2>1
  <2> QED
    BY <2>1, <2>3, <2>4 DEF CountsInv
<1> QED
  BY <1>12, <1>13, <1>14 DEF CountsInv

\* Nobody has to be counted longer than a day, or when a rotation is given up.
LEMMA LessCounts ==
  ASSUME KeysInv, CountsInv, UNCHANGED key, now' \in Nat, now <= now',
         \A p \in Processes : rotating'[p] = rotating[p] \/ rotating'[p] = Idle
  PROVE  CountsInv'
<1>1. key \in Seq(KeyRow) /\ now \in Nat /\ DOMAIN key = Ids /\ \A j \in Ids : key[j].created \in Nat
  BY RowsKnown
<1>2. ASSUME NEW k \in Ids
      PROVE  Cardinality(From(key, k)) + Cardinality(Pending(rotating', k)) <= Cardinality(Processes)
  <2>1. Pending(rotating', k) \in SUBSET Pending(rotating, k)
    BY DEF Pending
  <2>2. Pending(rotating, k) \in SUBSET Processes /\ From(key, k) \in SUBSET DOMAIN key
    BY DEF Pending, From
  <2>3. /\ Cardinality(Pending(rotating', k)) <= Cardinality(Pending(rotating, k))
        /\ Cardinality(Pending(rotating', k)) \in Nat /\ Cardinality(Pending(rotating, k)) \in Nat
    BY <2>1, <2>2, FewProcesses, FS_Subset
  <2>4. Cardinality(From(key, k)) \in Nat
    BY <1>1, <2>2, Counted
  <2>5. Cardinality(From(key, k)) + Cardinality(Pending(rotating, k)) <= Cardinality(Processes)
    BY DEF CountsInv
  <2>6. Cardinality(Processes) = 2
    BY FewProcesses
  <2> QED
    BY <2>3, <2>4, <2>5, <2>6
<1>3. ASSUME rotating'["service"] # Idle
      PROVE  Cardinality(MemberSince(key, key[rotating'["service"].key].tenant, now')) < DailyLimit
  <2>1. rotating'["service"] = rotating["service"] /\ rotating["service"] # Idle
    BY <1>3 DEF Processes
  <2> DEFINE t == key[rotating["service"].key].tenant
  <2>2. Cardinality(MemberSince(key, t, now)) < DailyLimit
    BY <2>1 DEF CountsInv
  <2> HIDE DEF t
  <2>3. MemberSince(key, t, now') \in SUBSET MemberSince(key, t, now)
    BY <1>1, KeysAssumption DEF MemberSince
  <2>4. MemberSince(key, t, now) \in SUBSET DOMAIN key
    BY DEF MemberSince
  <2>5. IsFiniteSet(MemberSince(key, t, now)) /\ Cardinality(MemberSince(key, t, now)) \in Nat
    BY <1>1, <2>4, Counted
  <2>6. /\ Cardinality(MemberSince(key, t, now')) <= Cardinality(MemberSince(key, t, now))
        /\ Cardinality(MemberSince(key, t, now')) \in Nat
    BY <2>3, <2>5, FS_Subset, FS_CardinalityType
  <2>7. Cardinality(MemberSince(key, t, now')) < DailyLimit
    BY <2>2, <2>5, <2>6, KeysAssumption
  <2> QED
    BY <2>1, <2>7 DEF t
<1> QED
  BY <1>2, <1>3 DEF CountsInv, Ids

LEMMA CountsStep ==
  ASSUME KeysInv, CountsInv, [Next]_keyVars
  PROVE  CountsInv'
<1>1. CASE Member
  <2>1. ASSUME NEW k \in Ids, MemberRotate(k) PROVE CountsInv'
    BY <2>1, FindCounts DEF MemberRotate, Processes
  <2>2. ASSUME NEW grace \in Graces, MemberReplace(grace) PROVE CountsInv'
    BY <2>2, ReplaceCounts, KeysAssumption DEF MemberReplace, Processes, Never
  <2> QED
    BY <1>1, <2>1, <2>2, IssueCounts, RevokeCounts DEF Member
<1>2. CASE Operator
  <2>1. ASSUME NEW k \in Ids, OperatorRotate(k) PROVE CountsInv'
    BY <2>1, FindCounts DEF OperatorRotate, Processes
  <2>2. ASSUME NEW grace \in Graces, NEW days \in Lifetimes, OperatorReplace(grace, days) PROVE CountsInv'
    BY <2>2, ReplaceCounts, KeysAssumption DEF OperatorReplace, Processes
  <2> QED
    BY <1>2, <2>1, <2>2, IssueCounts, RevokeCounts DEF Operator
<1>3. CASE \E k \in Ids : Authenticate(k)
  BY <1>3, AuthenticateCounts
<1>4. now \in Nat
  BY RowsKnown
<1>5. CASE \E p \in Processes : ReplaceFails(p)
  <2>1. UNCHANGED <<key, now>> /\ \A p \in Processes : rotating'[p] = rotating[p] \/ rotating'[p] = Idle
    BY <1>5, RowsKnown DEF ReplaceFails
  <2>2. now' \in Nat /\ now <= now'
    BY <1>4, <2>1
  <2> QED
    BY <2>1, <2>2, LessCounts
<1>6. CASE Tick \/ UNCHANGED keyVars
  <2>1. now' \in Nat /\ now <= now' /\ UNCHANGED <<key, rotating>>
    BY <1>4, <1>6 DEF Tick, keyVars
  <2> QED
    BY <2>1, LessCounts
<1> QED
  BY <1>1, <1>2, <1>3, <1>5, <1>6 DEF Next

\* However the member's routes and the operator's commands interleave, a key
\* has no more replacements than there are processes, and no more than
\* DailyLimit keys of a tenant come from the member's routes within a Day.
THEOREM KeysAreCounted == Spec => []KeysAccountedFor
<1>1. Init => CountsInv
  <2> SUFFICES ASSUME Init PROVE CountsInv
    OBVIOUS
  <2>1. Ids = {} /\ rotating["service"] = Idle
    BY DEF Init, Ids, Processes
  <2> QED
    BY <2>1 DEF CountsInv
<1>2. KeysInv /\ CountsInv /\ [Next]_keyVars => CountsInv'
  BY CountsStep
<1>3. KeysInv /\ CountsInv => KeysAccountedFor
  <2> SUFFICES ASSUME KeysInv, CountsInv PROVE KeysAccountedFor
    OBVIOUS
  <2>1. DOMAIN key = Ids /\ key \in Seq(KeyRow)
    BY RowsKnown
  <2>2. ASSUME NEW k \in Ids
        PROVE  Cardinality({s \in Ids : key[s].from = k}) <= Cardinality(Processes)
    <3>1. {s \in Ids : key[s].from = k} = From(key, k)
      BY <2>1 DEF From
    <3>2. Cardinality(From(key, k)) + Cardinality(Pending(rotating, k)) <= Cardinality(Processes)
      BY DEF CountsInv
    <3>3. From(key, k) \in SUBSET DOMAIN key /\ Pending(rotating, k) \in SUBSET Processes
      BY DEF From, Pending
    <3>4. Cardinality(From(key, k)) \in Nat /\ Cardinality(Pending(rotating, k)) \in Nat
          /\ Cardinality(Processes) = 2
      BY <2>1, <3>3, Counted, FewProcesses
    <3>5. Cardinality(From(key, k)) <= Cardinality(Processes)
      BY <3>2, <3>4
    <3> QED
      BY <3>1, <3>5, Zenon
  <2>3. ASSUME NEW k \in Ids, key[k].by = "member"
        PROVE  Cardinality({s \in Ids : /\ key[s].tenant = key[k].tenant /\ key[s].by = "member"
                                        /\ s <= k /\ key[s].created + Day >= key[k].created}) <= DailyLimit
    <3>1. {s \in Ids : /\ key[s].tenant = key[k].tenant /\ key[s].by = "member"
                       /\ s <= k /\ key[s].created + Day >= key[k].created} = MemberUpTo(key, k)
      BY <2>1 DEF MemberUpTo
    <3>2. Cardinality(MemberUpTo(key, k)) <= DailyLimit
      BY <2>3 DEF CountsInv
    <3> QED
      BY <3>1, <3>2
  <2> QED
    BY <2>2, <2>3 DEF KeysAccountedFor, Replacements, DailyLimitHeld, KeysInv
<1> QED
  BY <1>1, <1>2, <1>3, KeysInvariant, PTL DEF Spec
=============================================================================
