------------------------------ MODULE Accounts ------------------------------
(***************************************************************************)
(* Accounts of the console (AccountStore and the /console/api/auth,        *)
(* /callbacks and admin routes that write them): one-time codes, passwords,*)
(* federated identities, OAuth states and sessions.  Each handler runs to  *)
(* its end between two awaits and its writes are those of one SQLite       *)
(* connection, so a handler is one step; the OAuth callback awaits the     *)
(* provider and is two.                                                    *)
(*                                                                         *)
(* accounts.email is UNIQUE and never updated, so an account is named by   *)
(* its address.  A deleted row keeps its id and a state that says so, and  *)
(* what the properties read of its history.                                *)
(***************************************************************************)
EXTENDS Naturals, FiniteSets

CONSTANTS
  Emails,       \* addresses
  Passwords,    \* passwords validatePasswordStrength accepts
  NoPassword,
  Subjects,     \* users at the OAuth providers
  Reports,      \* Reports[x]: the addresses a provider may report of user x
  Telegrams,    \* users at Telegram
  Providers,    \* OAuth providers: Google and Discord
  Unconfigured, \* OAuth providers without a client id
  CodeTTL,      \* OTP_TTL_MINUTES, in ticks
  Resend,       \* OTP_RESEND_SECONDS
  MaxAttempts,  \* OTP_MAX_ATTEMPTS
  StateTTL,     \* ttlMinutes of an OAuth state
  SessionTTL,   \* SESSION_TTL_HOURS
  MaxCodes, MaxStates, MaxSessions, \* bounds: rows ever inserted
  MaxProofs,    \* bound: codes and states together
  MaxTime       \* bound: ticks a run lasts

Purposes  == {"login", "register", "reset"}

ASSUME AddressAssumption ==
  Reports \in [Subjects -> SUBSET Emails] /\ Unconfigured \subseteq Providers
\* type OauthProvider
ASSUME ProviderAssumption == Providers \cap {"code", "telegram"} = {}
ASSUME PasswordAssumption == NoPassword \notin Passwords
ASSUME DurationAssumption ==
  /\ CodeTTL \in Nat \ {0} /\ Resend \in Nat \ {0} /\ MaxAttempts \in Nat \ {0}
  /\ StateTTL \in Nat \ {0} /\ SessionTTL \in Nat \ {0} /\ MaxTime \in Nat
  /\ MaxCodes \in Nat /\ MaxStates \in Nat /\ MaxSessions \in Nat /\ MaxProofs \in Nat

Codes    == 1 .. MaxCodes
States   == 1 .. MaxStates
Sessions == 1 .. MaxSessions

VARIABLES
  account,    \* account[e]: the row of address e
  identities, \* account_identities: (provider, subject) is UNIQUE
  code,       \* login_codes, in the order of created_at
  oauth,      \* oauth_states, and the callbacks that await the provider with one
  session,    \* sessions
  now         \* the clock

accountVars == <<account, identities, code, oauth, session, now>>

NoAccount == [status |-> "absent", verified |-> FALSE, password |-> NoPassword]
NoCode    == [state |-> "absent", email |-> NoPassword, purpose |-> "login", at |-> 0,
              attempts |-> 0, accepted |-> 0]
NoState   == [state |-> "absent", provider |-> NoPassword, expires |-> 0, exchanging |-> 0]
GoneState == [NoState EXCEPT !.state = "deleted"]
NoSession == [state |-> "absent", account |-> NoPassword, via |-> "code", by |-> 0, expires |-> 0]

\* Rows get the next free id.
IsNext(rows, i) == rows[i].state = "absent" /\ \A j \in DOMAIN rows : j < i => rows[j].state # "absent"

Room == Cardinality({c \in Codes : code[c].state # "absent"})
          + Cardinality({x \in States : oauth[x].state # "absent"}) < MaxProofs

(***************************************************************************)
(* AccountStore.                                                           *)
(***************************************************************************)
Exists(e) == account[e].status # "absent"
Active(e) == account[e].status = "active"

create(e) == [account EXCEPT ![e] = [NoAccount EXCEPT !.status = "active"]]
FindOrCreate(e) == IF Exists(e) THEN account ELSE create(e)

Linked(provider, subject) ==
  {i \in identities : i.provider = provider /\ i.subject = subject}

\* mutant: provider and subject change places
linkIdentitySwapped(e, provider, subject) ==
  identities \cup {[provider |-> subject, subject |-> provider, account |-> e]}

linkIdentity(e, provider, subject) ==
  IF Linked(provider, subject) # {} THEN identities
  ELSE identities \cup {[provider |-> provider, subject |-> subject, account |-> e]}

\* A row of the table, consumed or not, counts against the resend window.
Issued(c) == code[c].state \in {"live", "consumed"}

MayIssue(e) == \A c \in Codes : Issued(c) /\ code[c].email = e => now - code[c].at >= Resend

\* issueCode and its delivery by webhook or SMTP, awaited after the row is
\* written.  When it fails the caller is answered 502 and the row stays: a
\* code that is never typed.
issueCode(e, purpose) ==
  /\ MayIssue(e) /\ Room
  /\ \E c \in Codes :
       /\ IsNext(code, c)
       /\ code' = [code EXCEPT ![c] =
                     [NoCode EXCEPT !.state = "live", !.email = e, !.purpose = purpose,
                                    !.at = now]]

\* The newest unconsumed code is the only one a typed code is compared with.
Challenge(e, purpose) ==
  LET open == {c \in Codes : /\ code[c].state = "live"
                             /\ code[c].email = e /\ code[c].purpose = purpose}
  IN  {c \in open : \A d \in open : d <= c}

\* mutant: consumed_at is not written
consumeCodeKeeps(c, typed) ==
  code' = [code EXCEPT ![c].attempts = @ + 1,
                       ![c].accepted = IF typed = c THEN @ + 1 ELSE @]

\* consumeCode once the row is chosen and neither expired nor exhausted: the
\* attempt is counted before the comparison.
consumeCode(c, typed) ==
  code' = [code EXCEPT ![c].attempts = @ + 1,
                       ![c].accepted = IF typed = c THEN @ + 1 ELSE @,
                       ![c].state = IF typed = c THEN "consumed" ELSE @]

CodeLive(c) == code[c].at + CodeTTL > now
Tries(c) == CodeLive(c) /\ code[c].attempts < MaxAttempts

\* What can be typed: a code that was issued, or anything else.
Typed == {c \in Codes : code[c].state # "absent"} \cup {0}

\* resolveSession
Resolves(s) ==
  /\ session[s].state = "open" /\ session[s].expires > now
  /\ Active(session[s].account)

createSession(e, via, by) ==
  \E s \in Sessions :
    /\ IsNext(session, s)
    /\ session' = [session EXCEPT ![s] =
                     [state |-> "open", account |-> e, via |-> via, by |-> by,
                      expires |-> now + SessionTTL]]

(***************************************************************************)
(* Sign-in with a code, and with a password and a code.                    *)
(***************************************************************************)
RequestCode(e) ==
  /\ issueCode(e, "login")
  /\ UNCHANGED <<account, identities, oauth, session, now>>

\* The legacy flow: the code is all there is, the account is made on demand.
VerifyCode(e, typed) ==
  \E c \in Challenge(e, "login") :
    /\ Tries(c)
    /\ consumeCode(c, typed)
    /\ IF typed = c
       THEN /\ account' = FindOrCreate(e)
            /\ identities' = linkIdentity(e, "email", e)
            /\ createSession(e, "code", c)
       ELSE UNCHANGED <<account, identities, session>>
    /\ UNCHANGED <<oauth, now>>

PasswordLogin(e, p) ==
  /\ Active(e) /\ account[e].verified /\ account[e].password = p
  /\ issueCode(e, "login")
  /\ UNCHANGED <<account, identities, oauth, session, now>>

LoginVerify(e, typed) ==
  \E c \in Challenge(e, "login") :
    /\ Tries(c)
    /\ consumeCode(c, typed)
    /\ IF typed = c /\ Active(e) /\ account[e].verified
       THEN identities' = linkIdentity(e, "email", e) /\ createSession(e, "code", c)
       ELSE UNCHANGED <<identities, session>>
    /\ UNCHANGED <<account, oauth, now>>

(***************************************************************************)
(* Registration.  The credential of a pending account is replaced before   *)
(* the new code is issued, which the resend window may refuse.             *)
(***************************************************************************)
\* mutant: a verified account is treated like a pending one
RegisterAnyone(e, p) ==
  /\ account' = [FindOrCreate(e) EXCEPT ![e].password = p]
  /\ issueCode(e, "register") \/ (~MayIssue(e) /\ UNCHANGED code)
  /\ UNCHANGED <<identities, oauth, session, now>>

Register(e, p) ==
  /\ ~account[e].verified
  /\ account' = [FindOrCreate(e) EXCEPT ![e].password = p]
  /\ issueCode(e, "register") \/ (~MayIssue(e) /\ UNCHANGED code)
  /\ UNCHANGED <<identities, oauth, session, now>>

RegisterVerify(e, typed) ==
  \E c \in Challenge(e, "register") :
    /\ Tries(c)
    /\ consumeCode(c, typed)
    /\ IF typed = c /\ Active(e) /\ account[e].password # NoPassword
       THEN /\ account' = [account EXCEPT ![e].verified = TRUE]
            /\ identities' = linkIdentity(e, "email", e)
            /\ createSession(e, "code", c)
       ELSE UNCHANGED <<account, identities, session>>
    /\ UNCHANGED <<oauth, now>>

(***************************************************************************)
(* Passwords.                                                              *)
(***************************************************************************)
RequestReset(e) ==
  /\ Active(e)
  /\ issueCode(e, "reset")
  /\ UNCHANGED <<account, identities, oauth, session, now>>

Reset(e, typed, p) ==
  \E c \in Challenge(e, "reset") :
    /\ Tries(c)
    /\ consumeCode(c, typed)
    /\ account' = IF typed = c /\ Active(e)
                  THEN [account EXCEPT ![e].password = p, ![e].verified = TRUE]
                  ELSE account
    /\ UNCHANGED <<identities, oauth, session, now>>

SetPassword(s, p) ==
  /\ Resolves(s)
  /\ account' = [account EXCEPT ![session[s].account].password = p]
  /\ UNCHANGED <<identities, code, oauth, session, now>>

Logout(s) ==
  /\ session[s].state = "open"
  /\ session' = [session EXCEPT ![s].state = "revoked"]
  /\ UNCHANGED <<account, identities, code, oauth, now>>

(***************************************************************************)
(* Federated login.                                                        *)
(***************************************************************************)
\* The state is saved before the provider turns out not to be configured.
OauthStart(provider) ==
  /\ Room
  /\ \E x \in States :
       /\ IsNext(oauth, x)
       /\ oauth' = [oauth EXCEPT ![x] = [state |-> "saved", provider |-> provider,
                                         expires |-> now + StateTTL, exchanging |-> 0]]
  /\ UNCHANGED <<account, identities, code, session, now>>

\* mutant: the row is deleted when the provider has answered
CallbackKeepsState(x, provider) ==
  /\ oauth[x].state = "saved"
  /\ oauth' = [oauth EXCEPT ![x].exchanging =
                 IF oauth[x].provider = provider /\ oauth[x].expires > now THEN @ + 1 ELSE @]
  /\ UNCHANGED <<account, identities, code, session, now>>

\* consumeOauthState deletes the row whether or not it is still valid; a valid
\* one goes on to await the provider.
Callback(x, provider) ==
  LET row == oauth[x]
  IN  /\ row.state = "saved"
      /\ oauth' = [oauth EXCEPT ![x] =
                     IF row.provider = provider /\ row.expires > now
                     THEN [row EXCEPT !.state = "deleted", !.exchanging = row.exchanging + 1]
                     ELSE GoneState]
      /\ UNCHANGED <<account, identities, code, session, now>>

\* findByIdentity, or else the account of the address, made on demand.
Owner(provider, subject, e) ==
  IF Linked(provider, subject) = {} THEN e
  ELSE (CHOOSE i \in Linked(provider, subject) : TRUE).account

\* One callback is done with the state.
Answered(x) == IF oauth[x].exchanging = 1 /\ oauth[x].state = "deleted" THEN GoneState
               ELSE [oauth[x] EXCEPT !.exchanging = @ - 1]

\* exchangeCode returns the profile of a user with a verified address.
ExchangeReturns(x, subject, e) ==
  LET owner == Owner(oauth[x].provider, subject, e)
  IN  /\ oauth[x].exchanging > 0 /\ oauth[x].provider \notin Unconfigured
      /\ oauth' = [oauth EXCEPT ![x] = Answered(x)]
      /\ account' = FindOrCreate(owner)
      /\ identities' = linkIdentity(owner, oauth[x].provider, subject)
      /\ createSession(owner, oauth[x].provider, x)
      /\ UNCHANGED <<code, now>>

\* The provider refuses, answers late or without a verified address, is not
\* configured, or the process stops while it is awaited.
ExchangeFails(x) ==
  /\ oauth[x].exchanging > 0
  /\ oauth' = [oauth EXCEPT ![x] = Answered(x)]
  /\ UNCHANGED <<account, identities, code, session, now>>

\* A signed Telegram login: of a linked user, or linked to the session it
\* comes with.  A payload may be sent again while it is fresh.
Telegram(t, s) ==
  LET known == Linked("telegram", t)
      owner == IF known # {} THEN (CHOOSE i \in known : TRUE).account ELSE session[s].account
  IN  /\ known # {} \/ Resolves(s)
      /\ identities' = linkIdentity(owner, "telegram", t)
      /\ createSession(owner, "telegram", 0)
      /\ UNCHANGED <<account, code, oauth, now>>

(***************************************************************************)
(* Administration and time.                                                *)
(***************************************************************************)
\* POST admin/accounts/status by an admin whose Access assertion was verified.
\* Roles are not modelled: the admin is an account of its own.
SetStatus(e, status) ==
  /\ Exists(e) /\ account[e].status # status
  /\ account' = [account EXCEPT ![e].status = status]
  /\ UNCHANGED <<identities, code, oauth, session, now>>

\* The history of a code is whether it was accepted, and for what.
Swept(c) == IF code[c].accepted > 0 THEN [code[c] EXCEPT !.state = "swept", !.at = 0]
            ELSE [NoCode EXCEPT !.state = "swept"]

\* mutant: the rows of a tick still to come are swept
maintainEarly ==
  /\ code' = [c \in Codes |-> IF Issued(c) /\ code[c].at + CodeTTL <= now + 1
                              THEN Swept(c) ELSE code[c]]
  /\ oauth' = [x \in States |-> IF oauth[x].state = "saved" /\ oauth[x].expires <= now + 1
                                THEN GoneState ELSE oauth[x]]
  /\ session' = [s \in Sessions |-> IF session[s].state # "absent" /\ session[s].expires <= now + 1
                                    THEN [session[s] EXCEPT !.state = "swept", !.expires = 0]
                                    ELSE session[s]]

maintain ==
  /\ code' = [c \in Codes |-> IF Issued(c) /\ ~CodeLive(c) THEN Swept(c) ELSE code[c]]
  /\ oauth' = [x \in States |-> IF oauth[x].state = "saved" /\ oauth[x].expires <= now
                                THEN GoneState ELSE oauth[x]]
  /\ session' = [s \in Sessions |-> IF session[s].state # "absent" /\ session[s].expires <= now
                                    THEN [session[s] EXCEPT !.state = "swept", !.expires = 0]
                                    ELSE session[s]]

Maintain ==
  /\ maintain
  /\ UNCHANGED <<account, identities, now>>

Tick ==
  /\ now < MaxTime
  /\ now' = now + 1
  /\ UNCHANGED <<account, identities, code, oauth, session>>

Init ==
  /\ account = [e \in Emails |-> NoAccount]
  /\ identities = {}
  /\ code = [c \in Codes |-> NoCode]
  /\ oauth = [x \in States |-> NoState]
  /\ session = [s \in Sessions |-> NoSession]
  /\ now = 0

SignIn(e) ==
  \/ RequestCode(e) \/ RequestReset(e)
  \/ \E typed \in Typed : VerifyCode(e, typed) \/ LoginVerify(e, typed) \/ RegisterVerify(e, typed)
  \/ \E p \in Passwords :
       \/ PasswordLogin(e, p) \/ Register(e, p)
       \/ \E typed \in Typed : Reset(e, typed, p)

Federated ==
  \/ \E provider \in Providers :
       OauthStart(provider) \/ \E x \in States : Callback(x, provider)
  \/ \E x \in States :
       \/ ExchangeFails(x)
       \/ \E subject \in Subjects : \E e \in Reports[subject] : ExchangeReturns(x, subject, e)
  \/ \E t \in Telegrams, s \in Sessions : Telegram(t, s)

Next ==
  \/ \E e \in Emails : SignIn(e)
  \/ \E s \in Sessions : Logout(s) \/ \E p \in Passwords : SetPassword(s, p)
  \/ Federated
  \/ \E e \in Emails, status \in {"active", "suspended"} : SetStatus(e, status)
  \/ Maintain \/ Tick

Spec == Init /\ [][Next]_accountVars

-----------------------------------------------------------------------------
(***************************************************************************)
(* Properties.                                                             *)
(***************************************************************************)
AccountRow == [status : {"absent", "active", "suspended"}, verified : BOOLEAN,
               password : Passwords \cup {NoPassword}]
CodeRow    == [state : {"absent", "live", "consumed", "swept"},
               email : Emails \cup {NoPassword}, purpose : Purposes, at : Nat,
               attempts : Nat, accepted : Nat]
StateRow   == [state : {"absent", "saved", "deleted"}, provider : Providers \cup {NoPassword}, expires : Nat,
               exchanging : Nat]
SessionRow == [state : {"absent", "open", "revoked", "swept"},
               account : Emails \cup {NoPassword}, via : Providers \cup {"code", "telegram"},
               by : Nat, expires : Nat]
Identity ==
  [provider : {"email"}, subject : Emails, account : Emails]
    \cup [provider : Providers, subject : Subjects, account : Emails]
    \cup [provider : {"telegram"}, subject : Telegrams, account : Emails]

\* Types of the variables.
AccountsTypeOK ==
  /\ account \in [Emails -> AccountRow]
  /\ identities \subseteq Identity
  /\ code \in [Codes -> CodeRow]
  /\ oauth \in [States -> StateRow]
  /\ session \in [Sessions -> SessionRow]
  /\ now \in Nat

\* A code is accepted at most once, whatever requests, resends and sweeps come
\* in between, and is compared at most MaxAttempts times; an older code that
\* becomes the newest again keeps its own count.
CodeSpentOnce ==
  \A c \in Codes :
    /\ code[c].accepted <= 1 /\ code[c].attempts <= MaxAttempts
    /\ code[c].state = "live" => code[c].accepted = 0
    /\ code[c].state = "consumed" => code[c].accepted = 1

\* Every session was earned by a proof of its own: an accepted login or
\* registration code of its address, a state the provider answered, whose user
\* is linked to that account, or a linked Telegram user.
SessionsEarned ==
  /\ \A s, r \in Sessions :
       session[s].state # "absent" =>
         LET e == session[s].account
         IN  /\ s # r /\ session[r].state # "absent" /\ session[s].via = session[r].via
                  => session[s].via = "telegram" \/ session[s].by # session[r].by
             /\ session[s].via = "code" =>
                  /\ code[session[s].by].email = e /\ code[session[s].by].accepted > 0
                  /\ code[session[s].by].purpose # "reset"
             /\ session[s].via # "code" =>
                  \E i \in identities : i.provider = session[s].via /\ i.account = e
  /\ \A i, j \in identities :
       i.provider = j.provider /\ i.subject = j.subject => i.account = j.account
  /\ \A e \in Emails : account[e].verified =>
       \E c \in Codes : code[c].email = e /\ code[c].accepted > 0 /\ code[c].purpose # "login"

\* The password of a verified account changes only with a reset code of its
\* address or a session of its own: a registration that races a verification
\* never replaces it.
VerifiedPasswordKept ==
  [][\A e \in Emails :
       account[e].verified /\ account'[e].password # account[e].password =>
         \/ \E c \in Codes : /\ code[c].email = e /\ code[c].purpose = "reset"
                             /\ code'[c].accepted > code[c].accepted
         \/ \E s \in Sessions, p \in Passwords : session[s].account = e /\ SetPassword(s, p)
    ]_accountVars

\* The sweep is invisible: it takes no session that resolves, no code or state
\* that would be accepted, and - when a code outlives the resend window - lets
\* nobody ask for a code earlier.
SweepIsInvisible ==
  [][Maintain =>
       /\ \A s \in Sessions : Resolves(s)' = Resolves(s)
       /\ \A c \in Codes : code[c].state = "live" /\ Tries(c) => UNCHANGED code[c]
       /\ \A x \in States : oauth[x].state = "saved" /\ oauth[x].expires > now => UNCHANGED oauth[x]
       /\ Resend <= CodeTTL => \A e \in Emails : MayIssue(e)' = MayIssue(e)
    ]_accountVars
=============================================================================
