-------------------------- MODULE Accounts_proofs --------------------------
(***************************************************************************)
(* Codes are spent once, every session was earned, the password of a       *)
(* verified account is kept and the sweep is invisible, for any number of  *)
(* addresses, codes, sessions and providers, and any durations.            *)
(***************************************************************************)
EXTENDS Accounts, TLAPS

\* The inductive invariant, part by part; the parts are about variables of
\* their own.  An account that was verified exists.
\* A callback that awaits a provider names one, an open session an account.
VerifiedExist == \A e \in Emails : account[e].verified => Exists(e)
GoodState     == {row \in StateRow : row.exchanging > 0 => row.provider \in Providers}
GoodSession   == {row \in SessionRow : row.state = "open" => row.account \in Emails}

CodesOK    == code \in [Codes -> CodeRow] /\ CodeSpentOnce
RowsOK     == account \in [Emails -> AccountRow] /\ VerifiedExist
IdentsOK   == identities \subseteq Identity
StatesOK   == oauth \in [States -> GoodState]
SessionsOK == session \in [Sessions -> GoodSession]
NowOK      == now \in Nat

AccountsInv == CodesOK /\ RowsOK /\ IdentsOK /\ StatesOK /\ SessionsOK /\ NowOK

\* A part whose variables are left alone is kept.
LEMMA PartsKept ==
  /\ CodesOK /\ UNCHANGED code => CodesOK'
  /\ RowsOK /\ UNCHANGED account => RowsOK'
  /\ IdentsOK /\ UNCHANGED identities => IdentsOK'
  /\ StatesOK /\ UNCHANGED oauth => StatesOK'
  /\ SessionsOK /\ UNCHANGED session => SessionsOK'
  /\ NowOK /\ UNCHANGED now => NowOK'
BY DEF CodesOK, CodeSpentOnce, RowsOK, VerifiedExist, Exists, IdentsOK, StatesOK, SessionsOK, NowOK

(***************************************************************************)
(* The operations of AccountStore keep the parts they write.               *)
(***************************************************************************)
\* A new code has not been accepted.
LEMMA IssueOK ==
  ASSUME CodesOK, now \in Nat, NEW e \in Emails, NEW purpose \in Purposes, issueCode(e, purpose)
  PROVE  CodesOK'
<1> DEFINE new == [NoCode EXCEPT !.state = "live", !.email = e, !.purpose = purpose, !.at = now]
<1>1. PICK c \in Codes : code' = [code EXCEPT ![c] = new]
  BY DEF issueCode
<1>2. new \in CodeRow /\ new.accepted = 0 /\ new.attempts = 0 /\ new.state = "live"
  BY DEF NoCode, CodeRow
<1> HIDE DEF new
<1>3. code' \in [Codes -> CodeRow]
  BY <1>1, <1>2 DEF CodesOK
<1>4. CodeSpentOnce'
  BY <1>1, <1>2, DurationAssumption DEF CodesOK, CodeSpentOnce
<1> QED
  BY <1>3, <1>4 DEF CodesOK

\* A live code with attempts left is accepted once or stays open.
LEMMA ConsumeOK ==
  ASSUME CodesOK, NEW c \in Codes, code[c].state = "live", Tries(c), NEW typed, consumeCode(c, typed)
  PROVE  CodesOK'
<1> DEFINE new == [code[c] EXCEPT !.attempts = @ + 1,
                                  !.accepted = IF typed = c THEN @ + 1 ELSE @,
                                  !.state = IF typed = c THEN "consumed" ELSE @]
<1>1. code[c] \in CodeRow /\ code[c].accepted = 0
  BY DEF CodesOK, CodeSpentOnce
<1>2. code' = [code EXCEPT ![c] = new]
  BY DEF consumeCode
<1>3. /\ new \in CodeRow /\ new.attempts = code[c].attempts + 1
      /\ IF typed = c THEN new.accepted = 1 /\ new.state = "consumed"
         ELSE new.accepted = 0 /\ new.state = "live"
  <2> DEFINE row == code[c]
             accepted == IF typed = c THEN row.accepted + 1 ELSE row.accepted
             state == IF typed = c THEN "consumed" ELSE row.state
  <2>1. /\ row.attempts + 1 \in Nat /\ accepted \in Nat
        /\ state \in {"absent", "live", "consumed", "swept"}
    BY <1>1 DEF CodeRow
  <2>2. new = [row EXCEPT !.attempts = row.attempts + 1, !.accepted = accepted, !.state = state]
    BY <1>1 DEF CodeRow
  <2>3. new \in CodeRow /\ new.attempts = row.attempts + 1 /\ new.accepted = accepted /\ new.state = state
    <3> HIDE DEF new, accepted, state
    <3> QED
      BY <1>1, <2>1, <2>2 DEF CodeRow
  <2> QED
    BY <1>1, <2>3
<1>4. new.attempts <= MaxAttempts
  BY <1>1, <1>3, DurationAssumption DEF Tries, CodeRow
<1> HIDE DEF new
<1>5. code' \in [Codes -> CodeRow]
  BY <1>2, <1>3 DEF CodesOK
<1>6. CodeSpentOnce'
  BY <1>2, <1>3, <1>4 DEF CodesOK, CodeSpentOnce
<1> QED
  BY <1>5, <1>6 DEF CodesOK

\* The code a typed one is compared with is live, and of that address and purpose.
LEMMA ChallengeLive ==
  ASSUME NEW e, NEW purpose, NEW c \in Challenge(e, purpose)
  PROVE  c \in Codes /\ code[c].state = "live" /\ code[c].email = e /\ code[c].purpose = purpose
BY DEF Challenge

LEMMA FindOrCreateOK ==
  ASSUME RowsOK, NEW e \in Emails
  PROVE  /\ FindOrCreate(e) \in [Emails -> AccountRow]
         /\ \A d \in Emails : /\ FindOrCreate(e)[d].verified => FindOrCreate(e)[d].status # "absent"
                              /\ Exists(d) => FindOrCreate(e)[d] = account[d]
         /\ FindOrCreate(e)[e].status # "absent"
<1> DEFINE new == [NoAccount EXCEPT !.status = "active"]
<1>1. new \in AccountRow /\ ~new.verified /\ new.status = "active"
  BY DEF NoAccount, AccountRow
<1> HIDE DEF new
<1>2. FindOrCreate(e) = IF Exists(e) THEN account ELSE [account EXCEPT ![e] = new]
  BY DEF FindOrCreate, create, new
<1> QED
  BY <1>1, <1>2 DEF RowsOK, VerifiedExist, Exists

LEMMA LinkOK ==
  ASSUME IdentsOK, NEW e \in Emails, NEW provider, NEW subject,
         \/ provider = "email" /\ subject \in Emails
         \/ provider \in Providers /\ subject \in Subjects
         \/ provider = "telegram" /\ subject \in Telegrams
  PROVE  linkIdentity(e, provider, subject) \subseteq Identity
BY DEF IdentsOK, linkIdentity, Identity

\* The account of a linked user.
LEMMA LinkedAccount ==
  ASSUME IdentsOK, NEW provider, NEW subject, Linked(provider, subject) # {}
  PROVE  (CHOOSE i \in Linked(provider, subject) : TRUE).account \in Emails
<1>1. (CHOOSE i \in Linked(provider, subject) : TRUE) \in Identity
  BY DEF IdentsOK, Linked
<1> QED
  BY <1>1 DEF Identity

LEMMA CreateSessionOK ==
  ASSUME SessionsOK, now \in Nat, NEW e \in Emails, NEW via \in Providers \cup {"code", "telegram"},
         NEW by \in Nat, createSession(e, via, by)
  PROVE  SessionsOK'
<1>1. [state |-> "open", account |-> e, via |-> via, by |-> by, expires |-> now + SessionTTL]
        \in GoodSession
  BY DurationAssumption DEF SessionRow, GoodSession
<1> QED
  BY <1>1 DEF createSession, SessionsOK

\* An account that is rewritten, or made and rewritten.
LEMMA RowWritten ==
  ASSUME NEW accounts \in [Emails -> AccountRow], NEW e \in Emails, NEW row \in AccountRow,
         \A d \in Emails : accounts[d].verified => accounts[d].status # "absent",
         row.verified => row.status # "absent",
         account' = [accounts EXCEPT ![e] = row]
  PROVE  RowsOK'
BY DEF RowsOK, VerifiedExist, Exists

LEMMA AccountsKept ==
  ASSUME RowsOK
  PROVE  /\ account \in [Emails -> AccountRow]
         /\ \A d \in Emails : account[d].verified => account[d].status # "absent"
BY DEF RowsOK, VerifiedExist, Exists

\* A state or a callback that ends.
LEMMA StateWritten ==
  ASSUME StatesOK, NEW x \in States, NEW row \in GoodState, oauth' = [oauth EXCEPT ![x] = row]
  PROVE  StatesOK'
BY DEF StatesOK

LEMMA GoneOK == GoneState \in GoodState
BY DEF GoneState, NoState, StateRow, GoodState

LEMMA AnsweredOK ==
  ASSUME StatesOK, NEW x \in States, oauth[x].exchanging > 0
  PROVE  Answered(x) \in GoodState
<1>1. oauth[x] \in StateRow /\ oauth[x].provider \in Providers
  BY DEF StatesOK, GoodState
<1>2. [oauth[x] EXCEPT !.exchanging = @ - 1] \in GoodState
  BY <1>1 DEF StateRow, GoodState
<1> QED
  BY <1>2, GoneOK DEF Answered

(***************************************************************************)
(* The actions.                                                            *)
(***************************************************************************)
\* RequestCode, PasswordLogin and RequestReset write a code and nothing else.
LEMMA RequestsOK ==
  ASSUME AccountsInv, NEW e \in Emails, NEW p,
         RequestCode(e) \/ PasswordLogin(e, p) \/ RequestReset(e)
  PROVE  AccountsInv'
<1>1. \E purpose \in Purposes : issueCode(e, purpose)
  BY DEF RequestCode, PasswordLogin, RequestReset, Purposes
<1>2. UNCHANGED <<account, identities, oauth, session, now>>
  BY DEF RequestCode, PasswordLogin, RequestReset
<1>3. CodesOK'
  BY <1>1, IssueOK DEF AccountsInv, NowOK
<1> QED
  BY <1>2, <1>3, PartsKept DEF AccountsInv

LEMMA VerifyCodeOK ==
  ASSUME AccountsInv, NEW e \in Emails, NEW typed, VerifyCode(e, typed)
  PROVE  AccountsInv'
<1>1. PICK c \in Challenge(e, "login") :
        /\ Tries(c) /\ consumeCode(c, typed) /\ UNCHANGED <<oauth, now>>
        /\ IF typed = c
           THEN /\ account' = FindOrCreate(e)
                /\ identities' = linkIdentity(e, "email", e)
                /\ createSession(e, "code", c)
           ELSE UNCHANGED <<account, identities, session>>
  BY DEF VerifyCode
<1>2. CodesOK'
  BY <1>1, ChallengeLive, ConsumeOK DEF AccountsInv
<1>3. CASE typed = c
  <2>1. RowsOK'
    BY <1>1, <1>3, FindOrCreateOK DEF AccountsInv, RowsOK, VerifiedExist, Exists
  <2>2. IdentsOK'
    BY <1>1, <1>3, LinkOK DEF AccountsInv, IdentsOK
  <2>3. c \in Nat
    BY <1>1, ChallengeLive DEF Codes
  <2>4. SessionsOK'
    BY <1>1, <1>3, <2>3, CreateSessionOK DEF AccountsInv, NowOK
  <2> QED
    BY <1>1, <1>2, <2>1, <2>2, <2>4, PartsKept DEF AccountsInv
<1>4. CASE typed # c
  BY <1>1, <1>2, <1>4, PartsKept DEF AccountsInv
<1> QED
  BY <1>3, <1>4

LEMMA LoginVerifyOK ==
  ASSUME AccountsInv, NEW e \in Emails, NEW typed, LoginVerify(e, typed)
  PROVE  AccountsInv'
<1>1. PICK c \in Challenge(e, "login") :
        /\ Tries(c) /\ consumeCode(c, typed) /\ UNCHANGED <<account, oauth, now>>
        /\ \/ identities' = linkIdentity(e, "email", e) /\ createSession(e, "code", c)
           \/ UNCHANGED <<identities, session>>
  BY DEF LoginVerify
<1>2. CodesOK'
  BY <1>1, ChallengeLive, ConsumeOK DEF AccountsInv
<1>3. CASE identities' = linkIdentity(e, "email", e) /\ createSession(e, "code", c)
  <2>1. IdentsOK'
    BY <1>3, LinkOK DEF AccountsInv, IdentsOK
  <2>2. c \in Nat
    BY <1>1, ChallengeLive DEF Codes
  <2>3. SessionsOK'
    BY <1>3, <2>2, CreateSessionOK DEF AccountsInv, NowOK
  <2> QED
    BY <1>1, <1>2, <2>1, <2>3, PartsKept DEF AccountsInv
<1>4. CASE UNCHANGED <<identities, session>>
  BY <1>1, <1>2, <1>4, PartsKept DEF AccountsInv
<1> QED
  BY <1>1, <1>3, <1>4

LEMMA RegisterOK ==
  ASSUME AccountsInv, NEW e \in Emails, NEW p \in Passwords, Register(e, p)
  PROVE  AccountsInv'
<1>1. CodesOK'
  BY IssueOK, PartsKept DEF Register, AccountsInv, NowOK, Purposes
<1>2. RowsOK'
  <2> DEFINE found == FindOrCreate(e)
             row == [found[e] EXCEPT !.password = p]
  <2>1. found \in [Emails -> AccountRow] /\ \A d \in Emails : found[d].verified => found[d].status # "absent"
    BY FindOrCreateOK DEF AccountsInv
  <2>2. account' = [found EXCEPT ![e] = row]
    BY DEF Register
  <2> HIDE DEF found
  <2>3. row \in AccountRow /\ row.verified = found[e].verified /\ row.status = found[e].status
    BY <2>1 DEF AccountRow
  <2> HIDE DEF row
  <2> QED
    BY <2>1, <2>2, <2>3, RowWritten
<1>3. UNCHANGED <<identities, oauth, session, now>>
  BY DEF Register
<1> QED
  BY <1>1, <1>2, <1>3, PartsKept DEF AccountsInv

LEMMA RegisterVerifyOK ==
  ASSUME AccountsInv, NEW e \in Emails, NEW typed, RegisterVerify(e, typed)
  PROVE  AccountsInv'
<1>1. PICK c \in Challenge(e, "register") :
        /\ Tries(c) /\ consumeCode(c, typed) /\ UNCHANGED <<oauth, now>>
        /\ \/ /\ Active(e)
              /\ account' = [account EXCEPT ![e].verified = TRUE]
              /\ identities' = linkIdentity(e, "email", e) /\ createSession(e, "code", c)
           \/ UNCHANGED <<account, identities, session>>
  BY DEF RegisterVerify
<1>2. CodesOK'
  BY <1>1, ChallengeLive, ConsumeOK DEF AccountsInv
<1>3. CASE /\ Active(e)
           /\ account' = [account EXCEPT ![e].verified = TRUE]
           /\ identities' = linkIdentity(e, "email", e) /\ createSession(e, "code", c)
  <2>1. RowsOK'
    <3> DEFINE row == [account[e] EXCEPT !.verified = TRUE]
    <3>1. account' = [account EXCEPT ![e] = row]
      BY <1>3
    <3>2. row \in AccountRow /\ row.status = "active"
      BY <1>3, AccountsKept DEF AccountsInv, AccountRow, Active
    <3> HIDE DEF row
    <3> QED
      BY <3>1, <3>2, AccountsKept, RowWritten DEF AccountsInv
  <2>2. IdentsOK'
    BY <1>3, LinkOK DEF AccountsInv, IdentsOK
  <2>3. c \in Nat
    BY <1>1, ChallengeLive DEF Codes
  <2>4. SessionsOK'
    BY <1>3, <2>3, CreateSessionOK DEF AccountsInv, NowOK
  <2> QED
    BY <1>1, <1>2, <2>1, <2>2, <2>4, PartsKept DEF AccountsInv
<1>4. CASE UNCHANGED <<account, identities, session>>
  BY <1>1, <1>2, <1>4, PartsKept DEF AccountsInv
<1> QED
  BY <1>1, <1>3, <1>4

LEMMA ResetOK ==
  ASSUME AccountsInv, NEW e \in Emails, NEW typed, NEW p \in Passwords, Reset(e, typed, p)
  PROVE  AccountsInv'
<1>1. PICK c \in Challenge(e, "reset") :
        /\ Tries(c) /\ consumeCode(c, typed) /\ UNCHANGED <<identities, oauth, session, now>>
        /\ \/ Active(e) /\ account' = [account EXCEPT ![e].password = p, ![e].verified = TRUE]
           \/ UNCHANGED account
  BY DEF Reset
<1>2. CodesOK'
  BY <1>1, ChallengeLive, ConsumeOK DEF AccountsInv
<1>3. RowsOK'
  <2>1. CASE Active(e) /\ account' = [account EXCEPT ![e].password = p, ![e].verified = TRUE]
    <3> DEFINE row == [account[e] EXCEPT !.password = p, !.verified = TRUE]
    <3>1. account' = [account EXCEPT ![e] = row]
      BY <2>1, AccountsKept DEF AccountsInv
    <3>2. row \in AccountRow /\ row.status = "active"
      BY <2>1, AccountsKept DEF AccountsInv, AccountRow, Active
    <3> HIDE DEF row
    <3> QED
      BY <3>1, <3>2, AccountsKept, RowWritten DEF AccountsInv
  <2> QED
    BY <1>1, <2>1, PartsKept DEF AccountsInv
<1> QED
  BY <1>1, <1>2, <1>3, PartsKept DEF AccountsInv

LEMMA SetPasswordOK ==
  ASSUME AccountsInv, NEW s \in Sessions, NEW p \in Passwords, SetPassword(s, p)
  PROVE  AccountsInv'
<1> DEFINE e == session[s].account
           row == [account[e] EXCEPT !.password = p]
<1>1. account' = [account EXCEPT ![e] = row]
  BY DEF SetPassword
<1>2. CASE e \in Emails
  <2>1. row \in AccountRow /\ row.verified = account[e].verified /\ row.status = account[e].status
    BY <1>2, AccountsKept DEF AccountsInv, AccountRow
  <2> HIDE DEF row
  <2>2. RowsOK'
    BY <1>1, <1>2, <2>1, AccountsKept, RowWritten DEF AccountsInv
  <2> QED
    BY <2>2, PartsKept DEF SetPassword, AccountsInv
<1>3. CASE e \notin Emails
  <2>1. account' = account
    BY <1>1, <1>3, AccountsKept DEF AccountsInv
  <2> QED
    BY <2>1, PartsKept DEF SetPassword, AccountsInv
<1> QED
  BY <1>2, <1>3

LEMMA LogoutOK ==
  ASSUME AccountsInv, NEW s \in Sessions, Logout(s)
  PROVE  AccountsInv'
<1>1. SessionsOK'
  BY DEF Logout, AccountsInv, SessionsOK, SessionRow, GoodSession
<1> QED
  BY <1>1, PartsKept DEF Logout, AccountsInv

LEMMA OauthStartOK ==
  ASSUME AccountsInv, NEW provider \in Providers, OauthStart(provider)
  PROVE  AccountsInv'
<1> DEFINE row == [state |-> "saved", provider |-> provider, expires |-> now + StateTTL, exchanging |-> 0]
<1>1. row \in GoodState
  BY DurationAssumption DEF AccountsInv, NowOK, StateRow, GoodState
<1>2. \E x \in States : oauth' = [oauth EXCEPT ![x] = row]
  BY DEF OauthStart
<1> HIDE DEF row
<1>3. StatesOK'
  BY <1>1, <1>2, StateWritten DEF AccountsInv
<1> QED
  BY <1>3, PartsKept DEF OauthStart, AccountsInv

LEMMA CallbackOK ==
  ASSUME AccountsInv, NEW x \in States, NEW provider \in Providers, Callback(x, provider)
  PROVE  AccountsInv'
<1> DEFINE row == oauth[x]
           gone == [row EXCEPT !.state = "deleted", !.exchanging = row.exchanging + 1]
<1>1. oauth' = [oauth EXCEPT ![x] = IF row.provider = provider /\ row.expires > now
                                    THEN gone ELSE GoneState]
  BY DEF Callback
<1>2. row.provider = provider => gone \in GoodState
  <2>1. row \in StateRow
    BY DEF AccountsInv, StatesOK, GoodState
  <2>2. row.exchanging + 1 \in Nat
    BY <2>1 DEF StateRow
  <2>3. gone \in StateRow /\ gone.provider = row.provider
    <3> HIDE DEF row
    <3> QED
      BY <2>1, <2>2 DEF StateRow
  <2> QED
    BY <2>3 DEF GoodState
<1> HIDE DEF gone
<1>3. StatesOK'
  BY <1>1, <1>2, GoneOK, StateWritten DEF AccountsInv
<1> QED
  BY <1>3, PartsKept DEF Callback, AccountsInv

LEMMA ExchangeReturnsOK ==
  ASSUME AccountsInv, NEW x \in States, NEW subject \in Subjects, NEW e \in Emails,
         ExchangeReturns(x, subject, e)
  PROVE  AccountsInv'
<1> DEFINE owner == Owner(oauth[x].provider, subject, e)
<1>1. owner \in Emails
  BY LinkedAccount DEF Owner, AccountsInv
<1>2. /\ oauth[x].exchanging > 0
      /\ oauth' = [oauth EXCEPT ![x] = Answered(x)]
      /\ account' = FindOrCreate(owner)
      /\ identities' = linkIdentity(owner, oauth[x].provider, subject)
      /\ createSession(owner, oauth[x].provider, x)
      /\ UNCHANGED <<code, now>>
  BY DEF ExchangeReturns
<1> HIDE DEF owner
<1>0. oauth[x].provider \in Providers
  BY <1>2 DEF AccountsInv, StatesOK, GoodState
<1>3. StatesOK'
  BY <1>2, AnsweredOK, StateWritten DEF AccountsInv
<1>4. RowsOK'
  BY <1>1, <1>2, FindOrCreateOK DEF AccountsInv, RowsOK, VerifiedExist, Exists
<1>5. IdentsOK'
  BY <1>0, <1>1, <1>2, LinkOK DEF AccountsInv, IdentsOK
<1>6. SessionsOK'
  <2>1. x \in Nat
    BY DEF States
  <2> QED
    BY <1>0, <1>1, <1>2, <2>1, CreateSessionOK DEF AccountsInv, NowOK
<1> QED
  BY <1>2, <1>3, <1>4, <1>5, <1>6, PartsKept DEF AccountsInv

LEMMA ExchangeFailsOK ==
  ASSUME AccountsInv, NEW x \in States, ExchangeFails(x)
  PROVE  AccountsInv'
<1>1. StatesOK'
  BY AnsweredOK, StateWritten DEF ExchangeFails, AccountsInv
<1> QED
  BY <1>1, PartsKept DEF ExchangeFails, AccountsInv

LEMMA SetStatusOK ==
  ASSUME AccountsInv, NEW e \in Emails, NEW status \in {"active", "suspended"}, SetStatus(e, status)
  PROVE  AccountsInv'
<1> DEFINE row == [account[e] EXCEPT !.status = status]
<1>1. account' = [account EXCEPT ![e] = row]
  BY DEF SetStatus
<1>2. row \in AccountRow /\ row.status # "absent"
  BY AccountsKept DEF AccountsInv, AccountRow
<1> HIDE DEF row
<1>3. RowsOK'
  BY <1>1, <1>2, AccountsKept, RowWritten DEF AccountsInv
<1> QED
  BY <1>3, PartsKept DEF SetStatus, AccountsInv

\* What is swept keeps what was accepted.
LEMMA MaintainOK ==
  ASSUME AccountsInv, Maintain
  PROVE  AccountsInv'
<1>1. ASSUME NEW c \in Codes
      PROVE  /\ Swept(c) \in CodeRow /\ Swept(c).state = "swept"
             /\ Swept(c).accepted <= 1 /\ Swept(c).attempts <= MaxAttempts
  <2>1. code[c] \in CodeRow /\ code[c].accepted <= 1 /\ code[c].attempts <= MaxAttempts
    BY DEF AccountsInv, CodesOK, CodeSpentOnce
  <2>2. /\ [NoCode EXCEPT !.state = "swept"] \in CodeRow
        /\ [NoCode EXCEPT !.state = "swept"].accepted = 0
        /\ [NoCode EXCEPT !.state = "swept"].attempts = 0
        /\ [NoCode EXCEPT !.state = "swept"].state = "swept"
    BY PasswordAssumption DEF NoCode, CodeRow, Purposes
  <2>3. /\ [code[c] EXCEPT !.state = "swept", !.at = 0] \in CodeRow
        /\ [code[c] EXCEPT !.state = "swept", !.at = 0].accepted = code[c].accepted
        /\ [code[c] EXCEPT !.state = "swept", !.at = 0].attempts = code[c].attempts
        /\ [code[c] EXCEPT !.state = "swept", !.at = 0].state = "swept"
    BY <2>1 DEF CodeRow
  <2> QED
    BY <2>1, <2>2, <2>3, DurationAssumption DEF Swept
<1>2. code' = [c \in Codes |-> IF Issued(c) /\ ~CodeLive(c) THEN Swept(c) ELSE code[c]]
  BY DEF Maintain, maintain
<1>3. code' \in [Codes -> CodeRow]
  BY <1>1, <1>2 DEF AccountsInv, CodesOK
<1>4. CodeSpentOnce'
  BY <1>1, <1>2 DEF AccountsInv, CodesOK, CodeSpentOnce
<1>5. CodesOK'
  BY <1>3, <1>4 DEF CodesOK
<1>6. StatesOK'
  BY GoneOK DEF Maintain, maintain, AccountsInv, StatesOK
<1>7. SessionsOK'
  <2>1. ASSUME NEW s \in Sessions
        PROVE  [session[s] EXCEPT !.state = "swept", !.expires = 0] \in GoodSession
    BY DEF AccountsInv, SessionsOK, SessionRow, GoodSession
  <2> QED
    BY <2>1 DEF Maintain, maintain, AccountsInv, SessionsOK
<1> QED
  BY <1>5, <1>6, <1>7, PartsKept DEF Maintain, AccountsInv

LEMMA TelegramOK ==
  ASSUME AccountsInv, NEW t \in Telegrams, NEW s \in Sessions, Telegram(t, s)
  PROVE  AccountsInv'
<1> DEFINE owner == IF Linked("telegram", t) # {}
                    THEN (CHOOSE i \in Linked("telegram", t) : TRUE).account
                    ELSE session[s].account
<1>1. owner \in Emails
  BY LinkedAccount DEF Telegram, Resolves, AccountsInv, SessionsOK, GoodSession
<1>2. /\ identities' = linkIdentity(owner, "telegram", t)
      /\ createSession(owner, "telegram", 0)
      /\ UNCHANGED <<account, code, oauth, now>>
  BY DEF Telegram
<1> HIDE DEF owner
<1>3. IdentsOK'
  BY <1>1, <1>2, LinkOK DEF AccountsInv, IdentsOK
<1>4. SessionsOK'
  BY <1>1, <1>2, CreateSessionOK DEF AccountsInv, NowOK
<1> QED
  BY <1>2, <1>3, <1>4, PartsKept DEF AccountsInv

(***************************************************************************)
(* The invariant, and what it is for.                                      *)
(***************************************************************************)
LEMMA InitOK == Init => AccountsInv
<1> SUFFICES ASSUME Init PROVE AccountsInv
  OBVIOUS
<1>1. CodesOK
  <2>1. NoCode \in CodeRow /\ NoCode.accepted = 0 /\ NoCode.attempts = 0 /\ NoCode.state = "absent"
    BY DEF NoCode, CodeRow, Purposes
  <2> QED
    BY <2>1, DurationAssumption DEF Init, CodesOK, CodeSpentOnce
<1>2. RowsOK
  BY DEF Init, RowsOK, VerifiedExist, NoAccount, AccountRow
<1>3. IdentsOK /\ NowOK
  BY DEF Init, IdentsOK, NowOK
<1>4. StatesOK
  BY DEF Init, StatesOK, NoState, StateRow, GoodState
<1>5. SessionsOK
  BY DEF Init, SessionsOK, NoSession, SessionRow, GoodSession
<1> QED
  BY <1>1, <1>2, <1>3, <1>4, <1>5 DEF AccountsInv

LEMMA SignInOK ==
  ASSUME AccountsInv, NEW e \in Emails, SignIn(e)
  PROVE  AccountsInv'
BY RequestsOK, VerifyCodeOK, LoginVerifyOK, RegisterOK, RegisterVerifyOK, ResetOK DEF SignIn

LEMMA FederatedOK ==
  ASSUME AccountsInv, Federated
  PROVE  AccountsInv'
<1>1. CASE \E provider \in Providers : OauthStart(provider)
  BY <1>1, OauthStartOK
<1>2. CASE \E provider \in Providers, x \in States : Callback(x, provider)
  BY <1>2, CallbackOK
<1>3. CASE \E x \in States : ExchangeFails(x)
  BY <1>3, ExchangeFailsOK
<1>4. CASE \E x \in States, subject \in Subjects : \E e \in Reports[subject] : ExchangeReturns(x, subject, e)
  <2>1. PICK x \in States, subject \in Subjects : \E e \in Reports[subject] : ExchangeReturns(x, subject, e)
    BY <1>4
  <2>2. PICK e \in Reports[subject] : ExchangeReturns(x, subject, e)
    BY <2>1
  <2>3. e \in Emails
    BY AddressAssumption
  <2> QED
    BY <2>2, <2>3, ExchangeReturnsOK
<1>5. CASE \E t \in Telegrams, s \in Sessions : Telegram(t, s)
  BY <1>5, TelegramOK
<1> QED
  BY <1>1, <1>2, <1>3, <1>4, <1>5 DEF Federated

\* AccountsInv holds in every reachable state: it is inductive.
THEOREM AccountsInvariant == Spec => []AccountsInv
<1>1. AccountsInv /\ [Next]_accountVars => AccountsInv'
  <2> SUFFICES ASSUME AccountsInv, [Next]_accountVars PROVE AccountsInv'
    OBVIOUS
  <2>1. CASE \E e \in Emails : SignIn(e)
    BY <2>1, SignInOK
  <2>2. CASE \E s \in Sessions : Logout(s) \/ \E p \in Passwords : SetPassword(s, p)
    BY <2>2, LogoutOK, SetPasswordOK
  <2>3. CASE Federated
    BY <2>3, FederatedOK
  <2>4. CASE \E e \in Emails, status \in {"active", "suspended"} : SetStatus(e, status)
    BY <2>4, SetStatusOK
  <2>5. CASE Maintain
    BY <2>5, MaintainOK
  <2>6. CASE Tick
    <3>1. NowOK'
      BY <2>6 DEF Tick, AccountsInv, NowOK
    <3> QED
      BY <2>6, <3>1, PartsKept DEF Tick, AccountsInv
  <2>7. CASE UNCHANGED accountVars
    BY <2>7, PartsKept DEF accountVars, AccountsInv
  <2> QED
    BY <2>1, <2>2, <2>3, <2>4, <2>5, <2>6, <2>7 DEF Next
<1> QED
  BY <1>1, InitOK, PTL DEF Spec

\* The types of accounts, identities, codes, states and sessions.
THEOREM AccountsTypeCorrect == Spec => []AccountsTypeOK
<1>1. AccountsInv => AccountsTypeOK
  BY DEF AccountsInv, AccountsTypeOK, CodesOK, RowsOK, IdentsOK, StatesOK, SessionsOK, NowOK,
         GoodState, GoodSession
<1> QED
  BY <1>1, AccountsInvariant, PTL

\* No interleaving of requests, resends, guesses and sweeps has a code accepted
\* twice, or compared more than MaxAttempts times.
THEOREM CodesSpentOnce == Spec => []CodeSpentOnce
<1>1. AccountsInv => CodeSpentOnce
  BY DEF AccountsInv, CodesOK
<1> QED
  BY <1>1, AccountsInvariant, PTL

(***************************************************************************)
(* The password of a verified account.                                     *)
(***************************************************************************)
\* Whatever is registered, requested or verified meanwhile, a verified account
\* changes its password by a reset code of its address or a session of its own.
THEOREM VerifiedPasswordsKept == Spec => VerifiedPasswordKept
<1> DEFINE ByReset(e)   == \E c \in Codes : /\ code[c].email = e /\ code[c].purpose = "reset"
                                            /\ code'[c].accepted > code[c].accepted
           BySession(e) == \E s \in Sessions, p \in Passwords : session[s].account = e /\ SetPassword(s, p)
           Safe(e)      == account[e].verified /\ account'[e].password # account[e].password =>
                             ByReset(e) \/ BySession(e)
<1>1. ASSUME AccountsInv, NEW e \in Emails, account[e].verified, UNCHANGED account
      PROVE  Safe(e)
  BY <1>1
<1>2. ASSUME AccountsInv, NEW e \in Emails, NEW d \in Emails, account' = FindOrCreate(d)
      PROVE  Safe(e)
  BY <1>2, FindOrCreateOK DEF AccountsInv, RowsOK, VerifiedExist
<1>3. ASSUME AccountsInv, NEW e \in Emails, NEW d \in Emails, NEW p \in Passwords, Register(d, p)
      PROVE  Safe(e)
  <2>1. /\ FindOrCreate(d) \in [Emails -> AccountRow]
        /\ Exists(e) => FindOrCreate(d)[e] = account[e]
    BY <1>3, FindOrCreateOK DEF AccountsInv
  <2>2. account' = [FindOrCreate(d) EXCEPT ![d].password = p] /\ ~account[d].verified
    BY <1>3 DEF Register
  <2> QED
    BY <1>3, <2>1, <2>2 DEF AccountsInv, RowsOK, VerifiedExist
<1>4. ASSUME AccountsInv, NEW e \in Emails, NEW d \in Emails, NEW typed, RegisterVerify(d, typed)
      PROVE  Safe(e)
  <2>1. account' = [account EXCEPT ![d].verified = TRUE] \/ UNCHANGED account
    BY <1>4 DEF RegisterVerify
  <2> QED
    BY <1>4, <2>1 DEF AccountsInv, RowsOK, AccountRow
<1>5. ASSUME AccountsInv, NEW e \in Emails, NEW d \in Emails, NEW typed, NEW p \in Passwords,
             Reset(d, typed, p)
      PROVE  Safe(e)
  <2>1. PICK c \in Challenge(d, "reset") :
          /\ consumeCode(c, typed)
          /\ \/ typed = c /\ account' = [account EXCEPT ![d].password = p, ![d].verified = TRUE]
             \/ UNCHANGED account
    BY <1>5 DEF Reset
  <2>2. c \in Codes /\ code[c] \in CodeRow /\ code[c].email = d /\ code[c].purpose = "reset"
    BY <1>5, ChallengeLive DEF AccountsInv, CodesOK
  <2>3. typed = c => code'[c].accepted = code[c].accepted + 1
    BY <1>5, <2>1, <2>2 DEF consumeCode, AccountsInv, CodesOK, CodeRow
  <2>4. typed = c => code'[c].accepted > code[c].accepted
    BY <2>2, <2>3 DEF CodeRow
  <2>5. e # d /\ account' = [account EXCEPT ![d].password = p, ![d].verified = TRUE] =>
          account'[e] = account[e]
    BY <1>5 DEF AccountsInv, RowsOK
  <2> QED
    BY <2>1, <2>2, <2>4, <2>5
<1>6. ASSUME AccountsInv, NEW e \in Emails, NEW s \in Sessions, NEW p \in Passwords, SetPassword(s, p)
      PROVE  Safe(e)
  <2>1. e # session[s].account => account'[e] = account[e]
    BY <1>6 DEF SetPassword, AccountsInv, RowsOK
  <2> QED
    BY <1>6, <2>1
<1>7. ASSUME AccountsInv, NEW e \in Emails, NEW d \in Emails, NEW status, SetStatus(d, status)
      PROVE  Safe(e)
  BY <1>7 DEF SetStatus, AccountsInv, RowsOK, AccountRow
<1>8. ASSUME AccountsInv, Next, NEW e \in Emails
      PROVE  Safe(e)
  <2> HIDE DEF Safe
  <2>1. CASE \E d \in Emails : SignIn(d)
    <3>1. PICK d \in Emails : SignIn(d)
      BY <2>1
    <3>2. CASE RequestCode(d) \/ RequestReset(d) \/ \E p \in Passwords : PasswordLogin(d, p)
      BY <1>1, <1>8, <3>2 DEF RequestCode, RequestReset, PasswordLogin, Safe
    <3>3. CASE \E typed \in Typed : VerifyCode(d, typed) \/ LoginVerify(d, typed)
      <4>1. account' = FindOrCreate(d) \/ UNCHANGED account
        BY <3>3 DEF VerifyCode, LoginVerify
      <4> QED
        BY <1>2, <1>8, <4>1 DEF Safe
    <3> QED
      BY <1>3, <1>4, <1>5, <1>8, <3>1, <3>2, <3>3 DEF SignIn
  <2>2. CASE \E s \in Sessions : Logout(s) \/ \E p \in Passwords : SetPassword(s, p)
    BY <1>6, <1>8, <2>2 DEF Logout, Safe
  <2>3. CASE Federated
    <3>1. \/ UNCHANGED account
          \/ \E x \in States, subject \in Subjects : \E d \in Reports[subject] : ExchangeReturns(x, subject, d)
      BY <2>3 DEF Federated, OauthStart, Callback, ExchangeFails, Telegram
    <3>2. CASE \E x \in States, subject \in Subjects : \E d \in Reports[subject] : ExchangeReturns(x, subject, d)
      <4>1. PICK x \in States, subject \in Subjects :
              \E d \in Reports[subject] : ExchangeReturns(x, subject, d)
        BY <3>2
      <4>2. PICK d \in Reports[subject] : ExchangeReturns(x, subject, d)
        BY <4>1
      <4>3. d \in Emails
        BY AddressAssumption
      <4>4. Owner(oauth[x].provider, subject, d) \in Emails
        BY <1>8, <4>3, LinkedAccount DEF Owner, AccountsInv
      <4> QED
        BY <1>2, <1>8, <4>2, <4>4 DEF ExchangeReturns
    <3> QED
      BY <1>8, <3>1, <3>2 DEF Safe
  <2>4. CASE \E d \in Emails, status \in {"active", "suspended"} : SetStatus(d, status)
    BY <1>7, <1>8, <2>4
  <2>5. CASE Maintain \/ Tick
    BY <1>8, <2>5 DEF Maintain, Tick, Safe
  <2> QED
    BY <1>8, <2>1, <2>2, <2>3, <2>4, <2>5 DEF Next
<1>9. AccountsInv /\ [Next]_accountVars =>
        [\A e \in Emails :
           account[e].verified /\ account'[e].password # account[e].password =>
             \/ \E c \in Codes : /\ code[c].email = e /\ code[c].purpose = "reset"
                                 /\ code'[c].accepted > code[c].accepted
             \/ \E s \in Sessions, p \in Passwords : session[s].account = e /\ SetPassword(s, p)
        ]_accountVars
  BY <1>8
<1> QED
  BY <1>9, AccountsInvariant, PTL DEF VerifiedPasswordKept, Spec

(***************************************************************************)
(* The sweep.                                                              *)
(***************************************************************************)
\* The hourly sweep closes no session, drops no code or state that would still
\* be accepted and opens no resend window, whenever it runs.
THEOREM SweepsAreInvisible == Spec => SweepIsInvisible
<1>1. ASSUME AccountsInv, Maintain
      PROVE  /\ \A s \in Sessions : Resolves(s)' = Resolves(s)
             /\ \A c \in Codes : code[c].state = "live" /\ Tries(c) => UNCHANGED code[c]
             /\ \A x \in States : oauth[x].state = "saved" /\ oauth[x].expires > now => UNCHANGED oauth[x]
             /\ Resend <= CodeTTL => \A e \in Emails : MayIssue(e)' = MayIssue(e)
  <2>1. UNCHANGED <<account, now>> /\ now \in Nat
    BY <1>1 DEF Maintain, AccountsInv, NowOK
  <2>2. ASSUME NEW s \in Sessions
        PROVE  Resolves(s)' = Resolves(s)
    <3>1. session[s].expires \in Nat
      BY <1>1 DEF AccountsInv, SessionsOK, GoodSession, SessionRow
    <3>2. session'[s] = IF session[s].state # "absent" /\ session[s].expires <= now
                        THEN [session[s] EXCEPT !.state = "swept", !.expires = 0] ELSE session[s]
      BY <1>1 DEF Maintain, maintain
    <3>3. CASE session[s].state # "absent" /\ session[s].expires <= now
      <4>1. session'[s].state = "swept"
        BY <1>1, <3>2, <3>3 DEF AccountsInv, SessionsOK, GoodSession, SessionRow
      <4> QED
        BY <2>1, <3>1, <3>3, <4>1 DEF Resolves
    <3>4. CASE ~(session[s].state # "absent" /\ session[s].expires <= now)
      BY <2>1, <3>2, <3>4 DEF Resolves, Active
    <3> QED
      BY <3>3, <3>4
  <2>3. ASSUME NEW c \in Codes, code[c].state = "live", Tries(c)
        PROVE  UNCHANGED code[c]
    BY <1>1, <2>3 DEF Maintain, maintain, Tries
  <2>4. ASSUME NEW x \in States, oauth[x].state = "saved", oauth[x].expires > now
        PROVE  UNCHANGED oauth[x]
    <3>1. oauth[x].expires \in Nat
      BY <1>1 DEF AccountsInv, StatesOK, GoodState, StateRow
    <3>2. oauth'[x] = IF oauth[x].state = "saved" /\ oauth[x].expires <= now
                      THEN GoneState ELSE oauth[x]
      BY <1>1 DEF Maintain, maintain
    <3> QED
      BY <2>1, <2>4, <3>1, <3>2
  <2>5. ASSUME Resend <= CodeTTL, NEW e \in Emails
        PROVE  MayIssue(e)' = MayIssue(e)
    <3>1. ASSUME NEW c \in Codes
          PROVE  (Issued(c) /\ code[c].email = e => now - code[c].at >= Resend)' =
                 (Issued(c) /\ code[c].email = e => now - code[c].at >= Resend)
      <4>1. code[c].at \in Nat /\ code[c] \in CodeRow
        BY <1>1 DEF AccountsInv, CodesOK, CodeRow
      <4>2. code'[c] = IF Issued(c) /\ ~CodeLive(c) THEN Swept(c) ELSE code[c]
        BY <1>1 DEF Maintain, maintain
      <4>3. CASE Issued(c) /\ ~CodeLive(c)
        <5>1. Swept(c).state = "swept"
          BY <4>1 DEF Swept, NoCode, CodeRow
        <5>2. ~Issued(c)'
          BY <4>2, <4>3, <5>1 DEF Issued
        <5>3. now - code[c].at >= Resend
          BY <2>1, <2>5, <4>1, <4>3, DurationAssumption DEF CodeLive
        <5> QED
          BY <5>2, <5>3
      <4>4. CASE ~(Issued(c) /\ ~CodeLive(c))
        BY <2>1, <4>2, <4>4 DEF Issued
      <4> QED
        BY <4>3, <4>4
    <3> QED
      BY <3>1 DEF MayIssue
  <2> QED
    BY <2>2, <2>3, <2>4, <2>5
<1>2. AccountsInv /\ [Next]_accountVars =>
        [Maintain =>
           /\ \A s \in Sessions : Resolves(s)' = Resolves(s)
           /\ \A c \in Codes : code[c].state = "live" /\ Tries(c) => UNCHANGED code[c]
           /\ \A x \in States : oauth[x].state = "saved" /\ oauth[x].expires > now => UNCHANGED oauth[x]
           /\ Resend <= CodeTTL => \A e \in Emails : MayIssue(e)' = MayIssue(e)]_accountVars
  BY <1>1
<1> QED
  BY <1>2, AccountsInvariant, PTL DEF SweepIsInvisible, Spec

(***************************************************************************)
(* Every session was earned.                                               *)
(***************************************************************************)
\* What a session or a verified account rests on stays for good: an accepted
\* code, a state a provider answered, an identity.
Accepted(c) == code[c].accepted > 0
Answerable(x) == oauth[x].state \in {"absent", "saved"} \/ oauth[x].exchanging > 0

ProvesCode(s) ==
  /\ session[s].by \in Codes /\ Accepted(session[s].by)
  /\ code[session[s].by].email = session[s].account /\ code[session[s].by].purpose # "reset"

ProvesIdentity(s) ==
  /\ \E i \in identities : i.provider = session[s].via /\ i.account = session[s].account
  /\ session[s].via \in Providers => session[s].by \in States /\ ~Answerable(session[s].by)

Backed ==
  \A s \in Sessions : session[s].state # "absent" =>
    IF session[s].via = "code" THEN ProvesCode(s) ELSE ProvesIdentity(s)

Separate ==
  \A s, r \in Sessions :
    s # r /\ session[s].state # "absent" /\ session[r].state # "absent" /\ session[s].via = session[r].via
      => session[s].via = "telegram" \/ session[s].by # session[r].by

OneOwner ==
  \A i, j \in identities : i.provider = j.provider /\ i.subject = j.subject => i.account = j.account

Proved ==
  \A e \in Emails : account[e].verified =>
    \E c \in Codes : code[c].email = e /\ Accepted(c) /\ code[c].purpose # "login"

\* An id that is free was never accepted, and one callback at most awaits the
\* provider with a state, which is then deleted.
FreshCodes == \A c \in Codes : code[c].state = "absent" => code[c].accepted = 0
OneCallback ==
  \A x \in States : oauth[x].exchanging > 0 => oauth[x].exchanging = 1 /\ oauth[x].state = "deleted"

EarnedInv == Backed /\ Separate /\ OneOwner /\ Proved /\ FreshCodes /\ OneCallback

(***************************************************************************)
(* What a step may do to the proofs and the sessions.                      *)
(***************************************************************************)
CodesKept ==
  \A c \in Codes : Accepted(c) => Accepted(c)' /\ code'[c].email = code[c].email
                                               /\ code'[c].purpose = code[c].purpose
StatesKept == \A x \in States : ~Answerable(x) => ~Answerable(x)'
IdentsKept == identities \subseteq identities'

SameSessions ==
  \A s \in Sessions :
    /\ session'[s].state # "absent" => session[s].state # "absent"
    /\ session[s].state # "absent" =>
         /\ session'[s].via = session[s].via /\ session'[s].by = session[s].by
         /\ session'[s].account = session[s].account

OneMore(e, via, by) ==
  \E n \in Sessions :
    /\ session[n].state = "absent"
    /\ session'[n].via = via /\ session'[n].by = by /\ session'[n].account = e
    /\ \A s \in Sessions \ {n} : session'[s] = session[s]

\* Without a new session, what was earned stays earned.
LEMMA StayEarned ==
  ASSUME Backed, Separate, CodesKept, StatesKept, IdentsKept, SameSessions
  PROVE  Backed' /\ Separate'
<1>1. ASSUME NEW s \in Sessions, session'[s].state # "absent"
      PROVE  IF session'[s].via = "code" THEN ProvesCode(s)' ELSE ProvesIdentity(s)'
  <2>1. /\ session[s].state # "absent"
        /\ session'[s].via = session[s].via /\ session'[s].by = session[s].by
        /\ session'[s].account = session[s].account
    BY <1>1 DEF SameSessions
  <2>2. CASE session[s].via = "code"
    <3>1. ProvesCode(s)
      BY <2>1, <2>2 DEF Backed
    <3> QED
      BY <2>1, <2>2, <3>1 DEF ProvesCode, CodesKept
  <2>3. CASE session[s].via # "code"
    <3>1. ProvesIdentity(s)
      BY <2>1, <2>3 DEF Backed
    <3> QED
      BY <2>1, <2>3, <3>1 DEF ProvesIdentity, StatesKept, IdentsKept
  <2> QED
    BY <2>2, <2>3
<1>2. Separate'
  BY DEF SameSessions, Separate
<1> QED
  BY <1>1, <1>2 DEF Backed

\* A new session rests on a proof nobody used before.
LEMMA BecomeEarned ==
  ASSUME Backed, Separate, CodesKept, StatesKept, IdentsKept,
         NEW e, NEW via, NEW by, OneMore(e, via, by),
         \/ /\ via = "code" /\ by \in Codes /\ ~Accepted(by) /\ Accepted(by)'
            /\ code'[by].email = e /\ code'[by].purpose # "reset"
         \/ /\ via \in Providers /\ by \in States /\ Answerable(by) /\ ~Answerable(by)'
            /\ \E i \in identities' : i.provider = via /\ i.account = e
         \/ via = "telegram" /\ \E i \in identities' : i.provider = via /\ i.account = e
  PROVE  Backed' /\ Separate'
<1>1. PICK n \in Sessions :
         /\ session[n].state = "absent"
         /\ session'[n].via = via /\ session'[n].by = by /\ session'[n].account = e
         /\ \A s \in Sessions \ {n} : session'[s] = session[s]
  BY DEF OneMore
<1>2. IF via = "code" THEN ProvesCode(n)' ELSE ProvesIdentity(n)'
  <2>1. CASE via = "code"
    BY <1>1, <2>1, ProviderAssumption DEF ProvesCode
  <2>2. CASE via # "code"
    BY <1>1, <2>2, ProviderAssumption DEF ProvesIdentity
  <2> QED
    BY <2>1, <2>2
<1>3. ASSUME NEW s \in Sessions \ {n}, session[s].state # "absent"
      PROVE  /\ IF session'[s].via = "code" THEN ProvesCode(s)' ELSE ProvesIdentity(s)'
             /\ session[s].via = via => via = "telegram" \/ session[s].by # by
  <2>1. session'[s] = session[s] /\ s \in Sessions
    BY <1>1
  <2>2. CASE session[s].via = "code"
    <3>1. ProvesCode(s)
      BY <1>3, <2>1, <2>2 DEF Backed
    <3>2. ProvesCode(s)'
      BY <2>1, <3>1 DEF ProvesCode, CodesKept
    <3> QED
      BY <2>1, <2>2, <3>1, <3>2, ProviderAssumption DEF ProvesCode
  <2>3. CASE session[s].via # "code"
    <3>1. ProvesIdentity(s)
      BY <1>3, <2>1, <2>3 DEF Backed
    <3>2. ProvesIdentity(s)'
      BY <2>1, <3>1 DEF ProvesIdentity, StatesKept, IdentsKept
    <3> QED
      BY <2>1, <2>3, <3>1, <3>2, ProviderAssumption DEF ProvesIdentity
  <2> QED
    BY <2>2, <2>3
<1>4. Backed'
  <2> SUFFICES ASSUME NEW s \in Sessions, session'[s].state # "absent"
               PROVE  IF session'[s].via = "code" THEN ProvesCode(s)' ELSE ProvesIdentity(s)'
    BY DEF Backed
  <2>1. CASE s = n
    BY <1>1, <1>2, <2>1
  <2>2. CASE s # n
    BY <1>1, <1>3, <2>2
  <2> QED
    BY <2>1, <2>2
<1>5. Separate'
  <2> SUFFICES ASSUME NEW s \in Sessions, NEW r \in Sessions, s # r,
                      session'[s].state # "absent", session'[r].state # "absent",
                      session'[s].via = session'[r].via
               PROVE  session'[s].via = "telegram" \/ session'[s].by # session'[r].by
    BY DEF Separate
  <2>1. CASE s = n
    BY <1>1, <1>3, <2>1
  <2>2. CASE r = n
    BY <1>1, <1>3, <2>2
  <2>3. CASE s # n /\ r # n
    BY <1>1, <2>3 DEF Separate
  <2> QED
    BY <2>1, <2>2, <2>3
<1> QED
  BY <1>4, <1>5

\* The proof a new session rests on: nobody used it before.
FreshProof(e, via, by) ==
  \/ /\ via = "code" /\ by \in Codes /\ ~Accepted(by) /\ Accepted(by)'
     /\ code'[by].email = e /\ code'[by].purpose # "reset"
  \/ /\ via \in Providers /\ by \in States /\ Answerable(by) /\ ~Answerable(by)'
     /\ \E i \in identities' : i.provider = via /\ i.account = e
  \/ via = "telegram" /\ \E i \in identities' : i.provider = via /\ i.account = e

ProvedNow ==
  \A e \in Emails : account'[e].verified =>
    \/ account[e].verified
    \/ \E c \in Codes : code'[c].email = e /\ Accepted(c)' /\ code'[c].purpose # "login"

\* A step that takes nothing back, and adds one session with a fresh proof if any.
LEMMA Earned ==
  ASSUME EarnedInv, CodesKept, StatesKept, IdentsKept, ProvedNow,
         FreshCodes', OneCallback', OneOwner',
         SameSessions \/ \E e, via, by : OneMore(e, via, by) /\ FreshProof(e, via, by)
  PROVE  EarnedInv'
<1>1. Backed' /\ Separate'
  <2>1. CASE SameSessions
    BY <2>1, StayEarned DEF EarnedInv
  <2>2. CASE \E e, via, by : OneMore(e, via, by) /\ FreshProof(e, via, by)
    <3>1. PICK e, via, by : OneMore(e, via, by) /\ FreshProof(e, via, by)
      BY <2>2
    <3>2. \/ /\ via = "code" /\ by \in Codes /\ ~Accepted(by) /\ Accepted(by)'
             /\ code'[by].email = e /\ code'[by].purpose # "reset"
          \/ /\ via \in Providers /\ by \in States /\ Answerable(by) /\ ~Answerable(by)'
             /\ \E i \in identities' : i.provider = via /\ i.account = e
          \/ via = "telegram" /\ \E i \in identities' : i.provider = via /\ i.account = e
      BY <3>1 DEF FreshProof
    <3>3. Backed /\ Separate
      BY DEF EarnedInv
    <3> QED
      BY <3>1, <3>2, <3>3, BecomeEarned
  <2> QED
    BY <2>1, <2>2
<1>2. Proved'
  BY DEF EarnedInv, Proved, ProvedNow, CodesKept
<1> QED
  BY <1>1, <1>2 DEF EarnedInv

\* Variables that are left alone take nothing back.
LEMMA NothingTaken ==
  ASSUME EarnedInv
  PROVE  /\ UNCHANGED code => CodesKept /\ FreshCodes'
         /\ UNCHANGED oauth => StatesKept /\ OneCallback'
         /\ UNCHANGED identities => IdentsKept /\ OneOwner'
         /\ UNCHANGED session => SameSessions
         /\ UNCHANGED account => ProvedNow
         /\ (\A e \in Emails : account'[e].verified => account[e].verified) => ProvedNow
<1>1. UNCHANGED code => CodesKept /\ FreshCodes'
  BY DEF EarnedInv, CodesKept, FreshCodes, Accepted
<1>2. UNCHANGED oauth => StatesKept /\ OneCallback'
  BY DEF EarnedInv, StatesKept, OneCallback, Answerable
<1>3. UNCHANGED identities => IdentsKept /\ OneOwner'
  BY DEF EarnedInv, IdentsKept, OneOwner
<1> QED
  BY <1>1, <1>2, <1>3 DEF SameSessions, ProvedNow

LEMMA SessionMade ==
  ASSUME SessionsOK, NEW e, NEW via, NEW by, createSession(e, via, by)
  PROVE  OneMore(e, via, by)
<1>1. PICK n \in Sessions :
         /\ session[n].state = "absent"
         /\ session' = [session EXCEPT ![n] = [state |-> "open", account |-> e, via |-> via, by |-> by,
                                               expires |-> now + SessionTTL]]
  BY DEF createSession, IsNext
<1> QED
  BY <1>1 DEF OneMore, SessionsOK

\* A new code is written where none was accepted.
LEMMA IssueKeeps ==
  ASSUME CodesOK, FreshCodes, NEW e, NEW purpose, issueCode(e, purpose)
  PROVE  CodesKept /\ FreshCodes'
<1>1. PICK c \in Codes :
         /\ code[c].state = "absent"
         /\ code' = [code EXCEPT ![c] = [NoCode EXCEPT !.state = "live", !.email = e,
                                                       !.purpose = purpose, !.at = now]]
  BY DEF issueCode, IsNext
<1>2. ~Accepted(c) /\ code'[c].state = "live" /\ \A d \in Codes \ {c} : code'[d] = code[d]
  BY <1>1 DEF Accepted, FreshCodes, CodesOK, NoCode
<1> QED
  BY <1>2 DEF CodesKept, FreshCodes, Accepted

\* A typed code is accepted once at most, and no other code is touched.
LEMMA ConsumeKeeps ==
  ASSUME CodesOK, FreshCodes, NEW c \in Codes, code[c].state = "live", NEW typed, consumeCode(c, typed)
  PROVE  /\ CodesKept /\ FreshCodes' /\ ~Accepted(c)
         /\ code'[c].email = code[c].email /\ code'[c].purpose = code[c].purpose
         /\ typed = c => Accepted(c)'
<1>1. code[c] \in CodeRow /\ code[c].accepted = 0 /\ code \in [Codes -> CodeRow]
  BY DEF CodesOK, CodeSpentOnce
<1>2. /\ \A d \in Codes \ {c} : code'[d] = code[d]
      /\ code'[c].email = code[c].email /\ code'[c].purpose = code[c].purpose
      /\ code'[c].state # "absent"
      /\ typed = c => code'[c].accepted = 1
  BY <1>1 DEF consumeCode, CodeRow
<1> QED
  BY <1>1, <1>2 DEF CodesKept, FreshCodes, Accepted

\* An identity is never taken from its account.
LEMMA LinkKeeps ==
  ASSUME OneOwner, NEW e, NEW provider, NEW subject,
         identities' = linkIdentity(e, provider, subject)
  PROVE  /\ IdentsKept /\ OneOwner'
         /\ Linked(provider, subject) = {} \/ (CHOOSE i \in Linked(provider, subject) : TRUE).account = e
              => \E i \in identities' : i.provider = provider /\ i.account = e
<1> DEFINE new == [provider |-> provider, subject |-> subject, account |-> e]
<1>1. CASE Linked(provider, subject) # {}
  <2>1. identities' = identities
    BY <1>1 DEF linkIdentity
  <2>2. \E i \in Linked(provider, subject) : i = CHOOSE j \in Linked(provider, subject) : TRUE
    BY <1>1
  <2> QED
    BY <1>1, <2>1, <2>2 DEF IdentsKept, OneOwner, Linked
<1>2. CASE Linked(provider, subject) = {}
  <2>1. identities' = identities \cup {new}
    BY <1>2 DEF linkIdentity
  <2>2. \A i \in identities : ~(i.provider = provider /\ i.subject = subject)
    BY <1>2 DEF Linked
  <2>3. new.provider = provider /\ new.subject = subject /\ new.account = e
    OBVIOUS
  <2> HIDE DEF new
  <2>4. OneOwner'
    BY <2>1, <2>2, <2>3 DEF OneOwner
  <2> QED
    BY <2>1, <2>3, <2>4 DEF IdentsKept
<1> QED
  BY <1>1, <1>2

(***************************************************************************)
(* Each action takes nothing back, and has a fresh proof for a new session.*)
(***************************************************************************)
\* A code is written and nothing else, but for the password of an account
\* that is not verified.
LEMMA RequestsEarned ==
  ASSUME AccountsInv, EarnedInv, NEW e \in Emails, NEW p,
         RequestCode(e) \/ PasswordLogin(e, p) \/ RequestReset(e)
  PROVE  EarnedInv'
<1>1. \E purpose : issueCode(e, purpose)
  BY DEF RequestCode, PasswordLogin, RequestReset
<1>2. UNCHANGED <<account, identities, oauth, session>>
  BY DEF RequestCode, PasswordLogin, RequestReset
<1>3. CodesKept /\ FreshCodes'
  BY <1>1, IssueKeeps DEF AccountsInv, EarnedInv
<1> QED
  BY <1>2, <1>3, NothingTaken, Earned

LEMMA RegisterEarned ==
  ASSUME AccountsInv, EarnedInv, NEW e \in Emails, NEW p \in Passwords, Register(e, p)
  PROVE  EarnedInv'
<1>1. UNCHANGED <<identities, oauth, session>>
  BY DEF Register
<1>2. CodesKept /\ FreshCodes'
  <2>1. (\E purpose : issueCode(e, purpose)) \/ UNCHANGED code
    BY DEF Register
  <2> QED
    BY <2>1, IssueKeeps, NothingTaken DEF AccountsInv, EarnedInv
<1>3. \A d \in Emails : account'[d].verified => account[d].verified
  <2> DEFINE made == FindOrCreate(e)
  <2>1. \A d \in Emails : made[d].verified => account[d].verified
    BY DEF FindOrCreate, create, NoAccount, AccountsInv, RowsOK
  <2>2. made \in [Emails -> AccountRow]
    BY FindOrCreateOK DEF AccountsInv
  <2>3. account' = [made EXCEPT ![e].password = p]
    BY DEF Register
  <2> HIDE DEF made
  <2>4. \A d \in Emails : account'[d].verified = made[d].verified
    BY <2>2, <2>3 DEF AccountRow
  <2> QED
    BY <2>1, <2>4
<1> QED
  BY <1>1, <1>2, <1>3, NothingTaken, Earned

\* Who signs in with a code gets a session of the code, which nobody had.
LEMMA CodeSessionEarned ==
  ASSUME AccountsInv, EarnedInv, NEW e \in Emails, NEW purpose \in {"login", "register"}, NEW typed,
         NEW c \in Challenge(e, purpose), consumeCode(c, typed), UNCHANGED oauth,
         \/ typed = c /\ identities' = linkIdentity(e, "email", e) /\ createSession(e, "code", c)
         \/ UNCHANGED <<identities, session>>,
         ProvedNow
  PROVE  EarnedInv'
<1>1. c \in Codes /\ code[c].state = "live" /\ code[c].email = e /\ code[c].purpose = purpose
  BY ChallengeLive
<1>2. /\ CodesKept /\ FreshCodes' /\ ~Accepted(c)
      /\ code'[c].email = code[c].email /\ code'[c].purpose = code[c].purpose
      /\ typed = c => Accepted(c)'
  BY <1>1, ConsumeKeeps DEF AccountsInv, EarnedInv
<1>3. StatesKept /\ OneCallback'
  BY NothingTaken
<1>4. CASE typed = c /\ identities' = linkIdentity(e, "email", e) /\ createSession(e, "code", c)
  <2>1. IdentsKept /\ OneOwner'
    BY <1>4, LinkKeeps DEF EarnedInv
  <2>2. OneMore(e, "code", c)
    BY <1>4, SessionMade DEF AccountsInv
  <2>3. FreshProof(e, "code", c)
    BY <1>1, <1>2, <1>4 DEF FreshProof
  <2>4. \E d, via, by : OneMore(d, via, by) /\ FreshProof(d, via, by)
    BY <2>2, <2>3
  <2> QED
    BY <1>2, <1>3, <2>1, <2>4, Earned
<1>5. CASE UNCHANGED <<identities, session>>
  BY <1>2, <1>3, <1>5, NothingTaken, Earned
<1> QED
  BY <1>4, <1>5

LEMMA VerifyCodeEarned ==
  ASSUME AccountsInv, EarnedInv, NEW e \in Emails, NEW typed, VerifyCode(e, typed)
  PROVE  EarnedInv'
<1>1. PICK c \in Challenge(e, "login") :
        /\ consumeCode(c, typed) /\ UNCHANGED oauth
        /\ \/ typed = c /\ identities' = linkIdentity(e, "email", e) /\ createSession(e, "code", c)
           \/ UNCHANGED <<identities, session>>
        /\ account' = FindOrCreate(e) \/ UNCHANGED account
  BY DEF VerifyCode
<1>2. \A d \in Emails : FindOrCreate(e)[d].verified => account[d].verified
  BY DEF FindOrCreate, create, NoAccount, AccountsInv, RowsOK
<1>3. ProvedNow
  BY <1>1, <1>2, NothingTaken
<1> QED
  BY <1>1, <1>3, CodeSessionEarned

LEMMA LoginVerifyEarned ==
  ASSUME AccountsInv, EarnedInv, NEW e \in Emails, NEW typed, LoginVerify(e, typed)
  PROVE  EarnedInv'
<1>1. PICK c \in Challenge(e, "login") :
        /\ consumeCode(c, typed) /\ UNCHANGED oauth /\ UNCHANGED account
        /\ \/ typed = c /\ identities' = linkIdentity(e, "email", e) /\ createSession(e, "code", c)
           \/ UNCHANGED <<identities, session>>
  BY DEF LoginVerify
<1>2. ProvedNow
  BY <1>1, NothingTaken
<1> QED
  BY <1>1, <1>2, CodeSessionEarned

LEMMA RegisterVerifyEarned ==
  ASSUME AccountsInv, EarnedInv, NEW e \in Emails, NEW typed, RegisterVerify(e, typed)
  PROVE  EarnedInv'
<1>1. PICK c \in Challenge(e, "register") :
        /\ consumeCode(c, typed) /\ UNCHANGED oauth
        /\ \/ /\ typed = c /\ identities' = linkIdentity(e, "email", e) /\ createSession(e, "code", c)
              /\ account' = [account EXCEPT ![e].verified = TRUE]
           \/ UNCHANGED <<account, identities, session>>
  BY DEF RegisterVerify
<1>2. c \in Codes /\ code[c].state = "live" /\ code[c].email = e /\ code[c].purpose = "register"
  BY ChallengeLive
<1>3. code'[c].email = e /\ code'[c].purpose = "register" /\ (typed = c => Accepted(c)')
  BY <1>1, <1>2, ConsumeKeeps DEF AccountsInv, EarnedInv
<1>4. ProvedNow
  <2>1. CASE UNCHANGED account
    BY <2>1, NothingTaken
  <2>2. CASE typed = c /\ account' = [account EXCEPT ![e].verified = TRUE]
    <3>1. \A d \in Emails \ {e} : account'[d] = account[d]
      BY <2>2 DEF AccountsInv, RowsOK
    <3> QED
      BY <1>2, <1>3, <2>2, <3>1 DEF ProvedNow
  <2> QED
    BY <1>1, <2>1, <2>2
<1>5. \/ typed = c /\ identities' = linkIdentity(e, "email", e) /\ createSession(e, "code", c)
      \/ UNCHANGED <<identities, session>>
  BY <1>1
<1> QED
  BY <1>1, <1>4, <1>5, CodeSessionEarned

LEMMA ResetEarned ==
  ASSUME AccountsInv, EarnedInv, NEW e \in Emails, NEW typed, NEW p \in Passwords, Reset(e, typed, p)
  PROVE  EarnedInv'
<1>1. PICK c \in Challenge(e, "reset") :
        /\ consumeCode(c, typed) /\ UNCHANGED <<identities, oauth, session>>
        /\ \/ typed = c /\ account' = [account EXCEPT ![e].password = p, ![e].verified = TRUE]
           \/ UNCHANGED account
  BY DEF Reset
<1>2. c \in Codes /\ code[c].state = "live" /\ code[c].email = e /\ code[c].purpose = "reset"
  BY ChallengeLive
<1>3. /\ CodesKept /\ FreshCodes'
      /\ code'[c].email = e /\ code'[c].purpose = "reset" /\ (typed = c => Accepted(c)')
  BY <1>1, <1>2, ConsumeKeeps DEF AccountsInv, EarnedInv
<1>4. ProvedNow
  <2>1. CASE UNCHANGED account
    BY <2>1, NothingTaken
  <2>2. CASE typed = c /\ account' = [account EXCEPT ![e].password = p, ![e].verified = TRUE]
    <3>1. \A d \in Emails \ {e} : account'[d] = account[d]
      BY <2>2 DEF AccountsInv, RowsOK
    <3> QED
      BY <1>2, <1>3, <2>2, <3>1 DEF ProvedNow
  <2> QED
    BY <1>1, <2>1, <2>2
<1> QED
  BY <1>1, <1>3, <1>4, NothingTaken, Earned

LEMMA AccountEarned ==
  ASSUME AccountsInv, EarnedInv,
         \/ \E s \in Sessions, p \in Passwords : SetPassword(s, p)
         \/ \E e \in Emails, status \in {"active", "suspended"} : SetStatus(e, status)
  PROVE  EarnedInv'
<1>1. UNCHANGED <<identities, code, oauth, session>>
  BY DEF SetPassword, SetStatus
<1>2. \A d \in Emails : account'[d].verified => account[d].verified
  <2>1. account \in [Emails -> AccountRow]
    BY DEF AccountsInv, RowsOK
  <2>2. ASSUME NEW s \in Sessions, NEW p \in Passwords, SetPassword(s, p), NEW d \in Emails
        PROVE  account'[d].verified = account[d].verified
    BY <2>1, <2>2 DEF SetPassword, AccountRow
  <2>3. ASSUME NEW e \in Emails, NEW status \in {"active", "suspended"}, SetStatus(e, status), NEW d \in Emails
        PROVE  account'[d].verified = account[d].verified
    BY <2>1, <2>3 DEF SetStatus, AccountRow
  <2> QED
    BY <2>2, <2>3
<1> QED
  BY <1>1, <1>2, NothingTaken, Earned

LEMMA LogoutEarned ==
  ASSUME AccountsInv, EarnedInv, NEW s \in Sessions, Logout(s)
  PROVE  EarnedInv'
<1>1. UNCHANGED <<account, identities, code, oauth>>
  BY DEF Logout
<1>2. SameSessions
  BY DEF Logout, AccountsInv, SessionsOK, GoodSession, SessionRow, SameSessions
<1> QED
  BY <1>1, <1>2, NothingTaken, Earned

LEMMA OauthStartEarned ==
  ASSUME AccountsInv, EarnedInv, NEW provider \in Providers, OauthStart(provider)
  PROVE  EarnedInv'
<1>1. PICK x \in States :
         /\ oauth[x].state = "absent"
         /\ oauth' = [oauth EXCEPT ![x] = [state |-> "saved", provider |-> provider,
                                           expires |-> now + StateTTL, exchanging |-> 0]]
  BY DEF OauthStart, IsNext
<1>2. StatesKept /\ OneCallback'
  BY <1>1 DEF AccountsInv, StatesOK, EarnedInv, StatesKept, OneCallback, Answerable
<1>3. UNCHANGED <<account, identities, code, session>>
  BY DEF OauthStart
<1> QED
  BY <1>2, <1>3, NothingTaken, Earned

LEMMA CallbackEarned ==
  ASSUME AccountsInv, EarnedInv, NEW x \in States, NEW provider \in Providers, Callback(x, provider)
  PROVE  EarnedInv'
<1>1. oauth[x] \in StateRow /\ oauth \in [States -> GoodState] /\ oauth[x].state = "saved"
  BY DEF AccountsInv, StatesOK, GoodState, Callback
<1>2. oauth[x].exchanging = 0
  BY <1>1 DEF EarnedInv, OneCallback, StateRow
<1>3. /\ \A y \in States \ {x} : oauth'[y] = oauth[y]
      /\ oauth'[x].state = "deleted" /\ oauth'[x].exchanging \in {0, 1}
  BY <1>1, <1>2 DEF Callback, GoneState, NoState, StateRow
<1>4. StatesKept /\ OneCallback'
  BY <1>1, <1>3 DEF EarnedInv, StatesKept, OneCallback, Answerable
<1>5. UNCHANGED <<account, identities, code, session>>
  BY DEF Callback
<1> QED
  BY <1>4, <1>5, NothingTaken, Earned

\* The one callback that awaits the provider ends, and nobody can answer the
\* state any more.
LEMMA AnswerEnds ==
  ASSUME AccountsInv, EarnedInv, NEW x \in States, oauth[x].exchanging > 0,
         oauth' = [oauth EXCEPT ![x] = Answered(x)]
  PROVE  StatesKept /\ OneCallback' /\ Answerable(x) /\ ~Answerable(x)'
<1>1. oauth[x].exchanging = 1 /\ oauth[x].state = "deleted" /\ oauth \in [States -> GoodState]
  BY DEF AccountsInv, StatesOK, EarnedInv, OneCallback
<1>2. oauth' = [oauth EXCEPT ![x] = GoneState]
  BY <1>1 DEF Answered
<1>3. /\ \A y \in States \ {x} : oauth'[y] = oauth[y]
      /\ oauth'[x].state = "deleted" /\ oauth'[x].exchanging = 0
  BY <1>1, <1>2 DEF GoneState, NoState
<1> QED
  BY <1>1, <1>3 DEF EarnedInv, StatesKept, OneCallback, Answerable

LEMMA ExchangeFailsEarned ==
  ASSUME AccountsInv, EarnedInv, NEW x \in States, ExchangeFails(x)
  PROVE  EarnedInv'
<1>1. StatesKept /\ OneCallback'
  BY AnswerEnds DEF ExchangeFails
<1>2. UNCHANGED <<account, identities, code, session>>
  BY DEF ExchangeFails
<1> QED
  BY <1>1, <1>2, NothingTaken, Earned

LEMMA ExchangeReturnsEarned ==
  ASSUME AccountsInv, EarnedInv, NEW x \in States, NEW subject \in Subjects, NEW e \in Emails,
         ExchangeReturns(x, subject, e)
  PROVE  EarnedInv'
<1> DEFINE provider == oauth[x].provider
           owner == Owner(provider, subject, e)
<1>1. /\ oauth[x].exchanging > 0
      /\ oauth' = [oauth EXCEPT ![x] = Answered(x)]
      /\ account' = FindOrCreate(owner)
      /\ identities' = linkIdentity(owner, provider, subject)
      /\ createSession(owner, provider, x)
      /\ UNCHANGED code
  BY DEF ExchangeReturns
<1>2. provider \in Providers
  BY <1>1 DEF AccountsInv, StatesOK, GoodState
<1>3. \/ Linked(provider, subject) = {}
      \/ (CHOOSE i \in Linked(provider, subject) : TRUE).account = owner
  BY DEF Owner
<1> HIDE DEF provider, owner
<1>4. StatesKept /\ OneCallback' /\ Answerable(x) /\ ~Answerable(x)'
  BY <1>1, AnswerEnds
<1>5. /\ IdentsKept /\ OneOwner'
      /\ \E i \in identities' : i.provider = provider /\ i.account = owner
  BY <1>1, <1>3, LinkKeeps DEF EarnedInv
<1>6. ProvedNow
  <2>1. \A d \in Emails : FindOrCreate(owner)[d].verified => account[d].verified
    BY DEF FindOrCreate, create, NoAccount, AccountsInv, RowsOK
  <2> QED
    BY <1>1, <2>1, NothingTaken
<1>7. OneMore(owner, provider, x)
  BY <1>1, SessionMade DEF AccountsInv
<1>8. FreshProof(owner, provider, x)
  BY <1>2, <1>4, <1>5 DEF FreshProof
<1>9. \E d, via, by : OneMore(d, via, by) /\ FreshProof(d, via, by)
  BY <1>7, <1>8
<1>10. CodesKept /\ FreshCodes'
  BY <1>1, NothingTaken
<1> QED
  BY <1>4, <1>5, <1>6, <1>9, <1>10, Earned

LEMMA TelegramEarned ==
  ASSUME AccountsInv, EarnedInv, NEW t \in Telegrams, NEW s \in Sessions, Telegram(t, s)
  PROVE  EarnedInv'
<1> DEFINE owner == IF Linked("telegram", t) # {}
                    THEN (CHOOSE i \in Linked("telegram", t) : TRUE).account
                    ELSE session[s].account
<1>1. /\ identities' = linkIdentity(owner, "telegram", t)
      /\ createSession(owner, "telegram", 0)
      /\ UNCHANGED <<account, code, oauth>>
  BY DEF Telegram
<1>2. \/ Linked("telegram", t) = {}
      \/ (CHOOSE i \in Linked("telegram", t) : TRUE).account = owner
  OBVIOUS
<1> HIDE DEF owner
<1>3. /\ IdentsKept /\ OneOwner'
      /\ \E i \in identities' : i.provider = "telegram" /\ i.account = owner
  BY <1>1, <1>2, LinkKeeps DEF EarnedInv
<1>4. OneMore(owner, "telegram", 0)
  BY <1>1, SessionMade DEF AccountsInv
<1>5. FreshProof(owner, "telegram", 0)
  BY <1>3 DEF FreshProof
<1>6. \E d, via, by : OneMore(d, via, by) /\ FreshProof(d, via, by)
  BY <1>4, <1>5
<1> QED
  BY <1>1, <1>3, <1>6, NothingTaken, Earned

\* The sweep takes rows, and no proof: the history of what was accepted stays.
LEMMA MaintainEarned ==
  ASSUME AccountsInv, EarnedInv, Maintain
  PROVE  EarnedInv'
<1>1. CodesKept /\ FreshCodes'
  <2>1. code \in [Codes -> CodeRow]
    BY DEF AccountsInv, CodesOK
  <2>2. code' = [c \in Codes |-> IF Issued(c) /\ ~CodeLive(c) THEN Swept(c) ELSE code[c]]
    BY DEF Maintain, maintain
  <2>3. ASSUME NEW c \in Codes
        PROVE  /\ Accepted(c) => /\ Swept(c).accepted > 0 /\ Swept(c).email = code[c].email
                                 /\ Swept(c).purpose = code[c].purpose
               /\ Swept(c).state = "swept"
    <3>1. CASE code[c].accepted > 0
      BY <2>1, <3>1 DEF Swept, CodeRow
    <3>2. CASE ~(code[c].accepted > 0)
      BY <3>2 DEF Swept, Accepted, NoCode
    <3> QED
      BY <3>1, <3>2
  <2> QED
    BY <2>1, <2>2, <2>3 DEF CodesKept, FreshCodes, Accepted, EarnedInv
<1>2. StatesKept /\ OneCallback'
  <2>1. oauth \in [States -> GoodState]
    BY DEF AccountsInv, StatesOK
  <2>2. \A x \in States : \/ oauth'[x] = oauth[x]
                          \/ oauth'[x] = GoneState
    BY <2>1 DEF Maintain, maintain
  <2>3. GoneState.state = "deleted" /\ GoneState.exchanging = 0
    BY DEF GoneState, NoState
  <2> QED
    BY <2>2, <2>3 DEF StatesKept, OneCallback, Answerable, EarnedInv
<1>3. SameSessions
  BY DEF Maintain, maintain, AccountsInv, SessionsOK, GoodSession, SessionRow, SameSessions
<1> QED
  BY <1>1, <1>2, <1>3, NothingTaken, Earned DEF Maintain

LEMMA EarnedInit == Init => EarnedInv
<1> SUFFICES ASSUME Init PROVE EarnedInv
  OBVIOUS
<1>1. Backed /\ Separate
  BY DEF Init, NoSession, Backed, Separate
<1>2. OneOwner /\ Proved
  BY DEF Init, NoAccount, OneOwner, Proved
<1>3. FreshCodes /\ OneCallback
  BY DEF Init, NoCode, NoState, FreshCodes, OneCallback
<1> QED
  BY <1>1, <1>2, <1>3 DEF EarnedInv

LEMMA EarnedStep ==
  ASSUME AccountsInv, EarnedInv, [Next]_accountVars
  PROVE  EarnedInv'
<1>1. ASSUME NEW e \in Emails, SignIn(e) PROVE EarnedInv'
  BY <1>1, RequestsEarned, VerifyCodeEarned, LoginVerifyEarned, RegisterEarned,
     RegisterVerifyEarned, ResetEarned DEF SignIn
<1>2. ASSUME NEW s \in Sessions, Logout(s) \/ \E p \in Passwords : SetPassword(s, p) PROVE EarnedInv'
  BY <1>2, LogoutEarned, AccountEarned
<1>3. ASSUME Federated PROVE EarnedInv'
  <2>1. ASSUME NEW x \in States, NEW subject \in Subjects, NEW e \in Reports[subject],
               ExchangeReturns(x, subject, e)
        PROVE  EarnedInv'
    <3>1. e \in Emails
      BY AddressAssumption
    <3> QED
      BY <2>1, <3>1, ExchangeReturnsEarned
  <2> QED
    BY <1>3, <2>1, OauthStartEarned, CallbackEarned, ExchangeFailsEarned, TelegramEarned DEF Federated
<1>4. ASSUME NEW e \in Emails, NEW status \in {"active", "suspended"}, SetStatus(e, status) PROVE EarnedInv'
  BY <1>4, AccountEarned
<1>5. ASSUME Tick \/ UNCHANGED accountVars PROVE EarnedInv'
  <2>1. UNCHANGED <<account, identities, code, oauth, session>>
    BY <1>5 DEF Tick, accountVars
  <2> QED
    BY <2>1, NothingTaken, Earned
<1> QED
  BY <1>1, <1>2, <1>3, <1>4, <1>5, MaintainEarned DEF Next

\* However requests, callbacks, logins and sweeps interleave: no two sessions
\* rest on one code or one state, each is of the account its proof is of, and a
\* verified account was verified by a code of its own address.
THEOREM SessionsAreEarned == Spec => []SessionsEarned
<1>1. AccountsInv /\ EarnedInv => SessionsEarned
  <2> SUFFICES ASSUME AccountsInv, EarnedInv PROVE SessionsEarned
    OBVIOUS
  <2>1. ASSUME NEW s \in Sessions, NEW r \in Sessions, session[s].state # "absent"
        PROVE  LET e == session[s].account
               IN  /\ s # r /\ session[r].state # "absent" /\ session[s].via = session[r].via
                        => session[s].via = "telegram" \/ session[s].by # session[r].by
                   /\ session[s].via = "code" =>
                        /\ code[session[s].by].email = e /\ code[session[s].by].accepted > 0
                        /\ code[session[s].by].purpose # "reset"
                   /\ session[s].via # "code" =>
                        \E i \in identities : i.provider = session[s].via /\ i.account = e
    BY <2>1 DEF EarnedInv, Separate, Backed, ProvesCode, ProvesIdentity, Accepted
  <2> QED
    BY <2>1 DEF EarnedInv, OneOwner, Proved, Accepted, SessionsEarned
<1>2. AccountsInv /\ EarnedInv /\ [Next]_accountVars => EarnedInv'
  BY EarnedStep
<1> QED
  BY <1>1, <1>2, EarnedInit, AccountsInvariant, PTL DEF Spec
=============================================================================
