---------------------------- MODULE MCRateLimits ----------------------------
(***************************************************************************)
(* An instance of RateLimits for TLC: three tenants share a registry of    *)
(* two, one of them has a second key, and the keys share two entries.  The *)
(* first key of a tenant is named like it.                                 *)
(*                                                                         *)
(* The limiters are spent by the front door: its decisions, and what it    *)
(* promises of them, are evaluated here over every combination of inputs.  *)
(***************************************************************************)
EXTENDS RateLimits, TLC

CONSTANTS s, k, t1, t2, t3

MCOwner == [c \in Credentials |-> IF c = k THEN t1 ELSE c]

Symmetry == Permutations({t2, t3})

Door == INSTANCE FrontDoor

Requests ==
  [path : Door!RouteIds \cup {"unlisted"}, method : {"GET", "POST", "PUT", "DELETE"},
   console : BOOLEAN, allows : [{"source", "shell"} -> BOOLEAN],
   origin : {"absent", "null", "trusted", "other"}, referer : {"absent", "trusted", "other"}]

ConsoleIsAbsent == Door!DisabledConsoleIsAbsent(Requests)
ASSUME ConsoleIsAbsent

Probes ==
  [path : Door!RouteIds, method : {"GET", "POST"}, console : BOOLEAN,
   allows : [{"source", "shell"} -> BOOLEAN], origin : {"absent"}, referer : {"absent"},
   token : {"right", "wrong"}, readyToken : {"right", "other"},
   metricsToken : {"right", "other", "absent"}, metricsEnabled : BOOLEAN,
   dependency : {"up", "down"}]

ProbesAreHidden == Door!ProbesAreHidden(Probes)
ASSUME ProbesAreHidden

Calls ==
  [console : BOOLEAN, key : BOOLEAN, account : {"none", "active", "suspended"},
   funded : BOOLEAN, allows : [{"credential", "tenant"} -> BOOLEAN],
   scopes : SUBSET {"models:read", "chat:write", "messages:write"},
   body : {"unreadable", "invalid", "valid"}, resolves : {"none", "model_not_found"},
   uses : SUBSET {"tools"}, capabilities : SUBSET {"text", "tools"},
   max_tokens : {0}, max_completion_tokens : {0}, maxOutputTokens : {9}, length : {4},
   extra : {0}, overhead : {0}]

StrangersLearnNothing == Door!StrangersLearnNothing(Calls)
ASSUME StrangersLearnNothing

ListedIsCallable == Door!ListedIsCallable(Calls)
ASSUME ListedIsCallable

Bounded ==
  {[c EXCEPT !.max_tokens = asked, !.max_completion_tokens = other, !.maxOutputTokens = most,
             !.length = long, !.extra = more, !.overhead = over] :
     c \in {CHOOSE d \in Calls : TRUE}, asked \in {0, 1, 9, 2000}, other \in {0, 5},
     most \in {1, 9, 4096}, long \in 1..6, more \in {0, 1, 3}, over \in {0, 7}}

ReservationCoversAnswer == Door!ReservationCoversAnswer(Bounded)
ASSUME ReservationCoversAnswer

ASSUME Door!DialectsAgreeOnRetry
=============================================================================
