-------------------------- MODULE InferenceRouter --------------------------
(***************************************************************************)
(* agent_core/llm.py: which model backend answers a request.               *)
(*                                                                         *)
(* choose(attempt) builds a chain of backends from the routing policy of   *)
(* the agent and from the circuit breakers; the agent keeps the chain and  *)
(* completes one request after the other with it.  A request tries the     *)
(* backends of the chain in turn: an open breaker is skipped, a backend    *)
(* that stays unreachable after its retries opens its breaker.  Time only  *)
(* closes breakers (Elapse).  A restart reads the breakers from a file     *)
(* that all workers rewrite, so they may then be anything.  Money is       *)
(* counted in answers that have a price, up to MaxSpend.                   *)
(***************************************************************************)
EXTENDS Naturals, Sequences, FiniteSets

CONSTANTS
  EscalateAfter, \* the first attempt that is scheduled for the cloud
  Policies,      \* the routing policies to consider
  FileBreakers,  \* the sets of open breakers that the file may hold
  MaxSpend       \* bound: spending is not told apart beyond it

Backends == {"local", "cloud", "premium"}
Providers == {"ollama", "openrouter"}

\* RoutingPolicy of the agent.  clouds are the cloud backends that have a key
\* and the required capabilities; budget 0 and timed FALSE mean no limit.
PolicyType == [providers : SUBSET Providers, private : BOOLEAN,
               clouds : SUBSET {"cloud", "premium"},
               budget : 0..MaxSpend, timed : BOOLEAN]

ASSUME RouterAssumption ==
  /\ EscalateAfter \in Nat /\ EscalateAfter >= 2
  /\ MaxSpend \in Nat
  /\ Policies \subseteq PolicyType
  /\ FileBreakers \subseteq SUBSET Backends

VARIABLES
  policy,        \* the policy of this agent
  open,          \* backends whose breaker is open in this process
  slow,          \* the last cloud answers took longer than the policy allows
  spend,         \* InferenceRouter.cloud_spend
  lastCost,      \* last_route.estimated_cloud_cost is set
  chain,         \* the backends of the chosen chain, in order
  notes,         \* its first fallback starts a new route record
  position,      \* the backend a request is trying, 0 between requests
  reply,         \* the backend that answered, or how the request failed
  localWell,     \* history: "local" was never open since the chain was built
  paid, priced   \* history: priced answers, and whether every answer was

routerVars == <<policy, open, slow, spend, lastCost, chain, notes, position,
                reply, localWell, paid, priced>>

Failures == {"unavailable", "garbled"}

RouterTypeOK ==
  /\ policy \in Policies
  /\ open \subseteq Backends /\ localWell \in BOOLEAN
  /\ slow \in BOOLEAN /\ lastCost \in BOOLEAN
  /\ notes \in BOOLEAN /\ priced \in BOOLEAN
  /\ spend \in 0..MaxSpend /\ paid \in 0..MaxSpend
  /\ chain \in Seq(Backends)
  /\ position \in 0..Len(chain)
  /\ reply \in {"none"} \cup Backends \cup Failures

FreshProcess ==
  /\ slow' = FALSE /\ spend' = 0 /\ paid' = 0 /\ priced' = TRUE
  /\ lastCost' = FALSE /\ chain' = <<>> /\ notes' = FALSE
  /\ position' = 0 /\ reply' = "none"

RouterInit ==
  /\ policy \in Policies
  /\ open \in FileBreakers
  /\ localWell = ("local" \notin open)
  /\ slow = FALSE /\ spend = 0 /\ paid = 0 /\ priced = TRUE
  /\ lastCost = FALSE /\ chain = <<>> /\ notes = FALSE
  /\ position = 0 /\ reply = "none"

-----------------------------------------------------------------------------
(* Choosing a chain                                                        *)

Provider(b) == IF b = "local" THEN "ollama" ELSE "openrouter"

WithinBudget(amount) == policy.budget = 0 \/ amount < policy.budget

CloudAllowed(b) ==
  b \in policy.clouds /\ ~policy.private /\ WithinBudget(spend) /\ ~slow

\* _policy_allows
Allows(b) ==
  Provider(b) \in policy.providers /\ (b = "local" \/ CloudAllowed(b))

Available(b) == Allows(b) /\ b \notin open

\* Mutant: the fallbacks are not asked whether the policy allows them.
IfClosed(b) == IF b \in open THEN <<>> ELSE <<b>>

IfAvailable(b) == IF Available(b) THEN <<b>> ELSE <<>>

FallbackChain(first, second) == IfAvailable(first) \o IfAvailable(second)

\* "ollama" is no allowed provider: one cloud backend and no fallback.
CloudOnly ==
  IF Available("cloud") THEN <<"cloud">> ELSE IfAvailable("premium")

LocalTier == <<"local">> \o FallbackChain("cloud", "premium")
StandardTier == <<"cloud">> \o FallbackChain("premium", "local")
PremiumTier == <<"premium">> \o FallbackChain("cloud", "local")

CloudTier(attempt) ==
  IF Allows("cloud") /\ "cloud" \in open THEN <<"local">>
  ELSE IF attempt = EscalateAfter /\ Allows("cloud") THEN StandardTier
  ELSE IF attempt > EscalateAfter /\ Allows("premium") THEN PremiumTier
  ELSE IF Allows("cloud") THEN <<"cloud">> \o IfAvailable("local")
  ELSE <<"local">>

\* The chain for an attempt, empty where choose raises BackendError.
Chain(attempt) ==
  IF policy.private THEN <<"local">>
  ELSE IF "ollama" \notin policy.providers THEN CloudOnly
  ELSE IF attempt < EscalateAfter THEN LocalTier
  ELSE CloudTier(attempt)

NotesFallback(attempt) ==
  /\ ~policy.private /\ "ollama" \in policy.providers
  /\ \/ attempt < EscalateAfter
     \/ attempt = EscalateAfter /\ Allows("cloud") /\ "cloud" \notin open

\* InferenceRouter.choose
Choose(attempt) ==
  /\ chain' = Chain(attempt)
  /\ notes' = NotesFallback(attempt)
  /\ lastCost' = FALSE
  /\ position' = 0
  /\ reply' = IF chain' = <<>> THEN "unavailable" ELSE "none"
  /\ localWell' = ("local" \notin open)
  /\ UNCHANGED <<policy, open, slow, spend, paid, priced>>

-----------------------------------------------------------------------------
(* A request walks through the chain                                       *)

\* _FailoverBackend.complete begins with the outermost backend.
StartRequest ==
  /\ chain # <<>> /\ position = 0
  /\ position' = 1
  /\ reply' = "none"
  /\ UNCHANGED <<policy, open, slow, spend, lastCost, chain, notes, localWell,
                 paid, priced>>

Trying(b) == position \in 1..Len(chain) /\ chain[position] = b

\* The next backend of the chain; without one the request fails.
FallBack ==
  /\ IF position < Len(chain)
       THEN position' = position + 1 /\ UNCHANGED reply
       ELSE position' = 0 /\ reply' = "unavailable"
  /\ lastCost' = (lastCost /\ ~(notes /\ position = 1 /\ Len(chain) > 1))
  /\ UNCHANGED <<policy, slow, spend, chain, notes, paid, priced>>

SkipOpen(b) ==
  /\ Trying(b) /\ b \in open
  /\ FallBack
  /\ UNCHANGED <<open, localWell>>

\* Mutant: the first unreachable backend fails the request.
FailsOutright(b) ==
  /\ Trying(b) /\ b \notin open
  /\ open' = open \cup {b}
  /\ localWell' = (localWell /\ b # "local")
  /\ position' = 0 /\ reply' = "unavailable"
  /\ UNCHANGED <<policy, slow, spend, lastCost, chain, notes, paid, priced>>

\* The retries are used up, or the account is refused.
Fails(b) ==
  /\ Trying(b) /\ b \notin open
  /\ open' = open \cup {b}
  /\ localWell' = (localWell /\ b # "local")
  /\ FallBack

\* Mutant: every level of the chain records the answer.
EveryLevel(k) == TRUE

\* The levels of the chain that have an on_response: the outermost one.
Records(k) == k = 1

UpTo(n) == IF n > MaxSpend THEN MaxSpend ELSE n

Recorded(k) == Cardinality({j \in 1..k : Records(j)})

\* What an answer says of its use: a cost, tokens without a cost, or nothing.
Usages == {"priced", "unpriced", "absent"}

\* _record_response.  A route that has a cost already is charged once more
\* for an answer without one.
RecordResponse(usage) ==
  /\ lastCost' = (lastCost \/ usage = "priced")
  /\ spend' = IF lastCost' THEN UpTo(spend + Recorded(position)) ELSE spend
  /\ slow' \in IF policy.timed THEN BOOLEAN ELSE {FALSE}

Answers(b, usage) ==
  /\ Trying(b) /\ b \notin open
  /\ reply' = b /\ position' = 0
  /\ IF b = "local" \/ usage = "absent"
       THEN UNCHANGED <<lastCost, spend, slow>>
       ELSE RecordResponse(usage)
  /\ paid' = IF b # "local" /\ usage = "priced" THEN UpTo(paid + 1) ELSE paid
  /\ priced' = (priced /\ (b = "local" \/ usage = "priced"))
  /\ UNCHANGED <<policy, open, chain, notes, localWell>>

\* Something arrives that is no completion: no other backend is tried.
Garbles(b) ==
  /\ Trying(b) /\ b \notin open
  /\ reply' = "garbled" /\ position' = 0
  /\ UNCHANGED <<policy, open, slow, spend, lastCost, chain, notes, localWell,
                 paid, priced>>

\* The caller has used the reply.
TakeReply ==
  /\ reply \in Backends /\ reply' = "none"
  /\ UNCHANGED <<policy, open, slow, spend, lastCost, chain, notes, position,
                 localWell, paid, priced>>

Elapse(b) ==
  /\ b \in open
  /\ open' = open \ {b}
  /\ UNCHANGED <<policy, slow, spend, lastCost, chain, notes, position, reply,
                 localWell, paid, priced>>

\* The process is restarted and reads the file of the breakers.
Restart ==
  /\ open' \in FileBreakers
  /\ localWell' = ("local" \notin open')
  /\ FreshProcess
  /\ UNCHANGED policy

RouterNext ==
  \/ \E attempt \in Nat : Choose(attempt)
  \/ StartRequest \/ TakeReply
  \/ \E b \in Backends :
       \/ SkipOpen(b) \/ Fails(b) \/ Garbles(b) \/ Elapse(b)
       \/ \E usage \in Usages : Answers(b, usage)
  \/ Restart

RouterSpec == RouterInit /\ [][RouterNext]_routerVars

-----------------------------------------------------------------------------
(* Properties                                                              *)

Permitted(b) ==
  IF b = "local"
    THEN policy.private \/ "ollama" \in policy.providers
    ELSE /\ ~policy.private
         /\ "openrouter" \in policy.providers
         /\ WithinBudget(paid)

\* At no time would a chain be built that leads to a backend which the policy
\* of the agent rules out: private work stays on the local model, a provider
\* that is not allowed is not used, and no cloud backend is chosen once the
\* answers this process has paid for reach the budget (_policy_allows in every
\* branch of choose and its fallbacks; later attempts are routed as the last).
PolicyIsKept ==
  \A attempt \in 1..(EscalateAfter + 1) :
    \A k \in DOMAIN Chain(attempt) : Permitted(Chain(attempt)[k])

\* The spending the budget is compared with is what the answers cost, however
\* many fallbacks a request went through (the comment in _fallback_chain); it
\* is more only when a cloud answer did not say what it costs.
SpendIsCounted == paid <= spend /\ (priced => spend = paid)

\* A request fails for lack of a backend only if the local model, where it may
\* be used, was itself unreachable or cooling down since the chain was built:
\* that a paid backend cannot be reached never fails a request alone (README:
\* "the router walks back to another cloud tier or local Ollama").  An answer
\* that is no completion is not retried elsewhere and does fail it.
WalksBack ==
  [][reply # "unavailable" /\ reply' = "unavailable" /\ Permitted("local")
       => ~localWell']_routerVars
=============================================================================
