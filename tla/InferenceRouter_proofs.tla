----------------------- MODULE InferenceRouter_proofs -----------------------
(***************************************************************************)
(* Proofs about InferenceRouter: its type invariant, that spending is      *)
(* counted, that every chain keeps to the policy, and that a request only  *)
(* fails when the local model does.                                        *)
(***************************************************************************)
EXTENDS InferenceRouter, FiniteSetTheorems, SequenceTheorems, TLAPS

\* A chain of permitted backends.
Lawful(s) == s \in Seq(Backends) /\ \A k \in 1..Len(s) : Permitted(s[k])

Includes(s, b) == \E k \in 1..Len(s) : s[k] = b

\* While the local model may be used and has been well, it is still ahead in
\* the chain of the request.
LocalIsAhead ==
  localWell /\ Permitted("local") /\ chain # <<>>
    => \E k \in 1..Len(chain) : k >= position /\ chain[k] = "local"

RouterInv ==
  /\ RouterTypeOK
  /\ SpendIsCounted
  /\ localWell => "local" \notin open
  /\ LocalIsAhead

-----------------------------------------------------------------------------
(* Chains                                                                  *)

\* Appending a lawful chain to a lawful chain gives a lawful chain that
\* includes what either of them does.
LEMMA Joined ==
  ASSUME NEW s, NEW t, Lawful(s), Lawful(t)
  PROVE  /\ Lawful(s \o t)
         /\ \A b : Includes(s, b) \/ Includes(t, b) => Includes(s \o t, b)
<1>1. /\ s \in Seq(Backends) /\ t \in Seq(Backends)
      /\ Len(s) \in Nat /\ Len(t) \in Nat
  BY DEF Lawful
<1>2. /\ s \o t \in Seq(Backends)
      /\ Len(s \o t) = Len(s) + Len(t)
      /\ \A k \in 1..(Len(s) + Len(t)) :
           (s \o t)[k] = IF k <= Len(s) THEN s[k] ELSE t[k - Len(s)]
  BY <1>1
<1>3. \A k \in 1..Len(s \o t) : Permitted((s \o t)[k])
  <2> TAKE k \in 1..Len(s \o t)
  <2>1. CASE k <= Len(s)
    BY <1>1, <1>2, <2>1 DEF Lawful
  <2>2. CASE ~(k <= Len(s))
    <3>1. k - Len(s) \in 1..Len(t)
      BY <1>1, <1>2, <2>2
    <3> QED BY <1>1, <1>2, <2>2, <3>1 DEF Lawful
  <2> QED BY <2>1, <2>2
<1>4. ASSUME NEW b, Includes(s, b) PROVE Includes(s \o t, b)
  BY <1>1, <1>2, <1>4 DEF Includes
<1>5. ASSUME NEW b, Includes(t, b) PROVE Includes(s \o t, b)
  <2>1. PICK k \in 1..Len(t) : t[k] = b
    BY <1>5 DEF Includes
  <2>2. /\ Len(s) + k \in 1..Len(s \o t) /\ ~(Len(s) + k <= Len(s))
        /\ (Len(s) + k) - Len(s) = k
    BY <1>1, <1>2, <2>1
  <2> QED BY <1>1, <1>2, <2>1, <2>2 DEF Includes
<1> QED BY <1>2, <1>3, <1>4, <1>5 DEF Lawful

\* A single permitted backend is a lawful chain.
LEMMA Single ==
  ASSUME NEW b \in Backends, Permitted(b)
  PROVE  Lawful(<<b>>) /\ Includes(<<b>>, b)
<1>1. <<b>> \in Seq(Backends) /\ Len(<<b>>) = 1 /\ <<b>>[1] = b
  OBVIOUS
<1> QED BY <1>1 DEF Lawful, Includes

\* The policy allows a backend, by the spending that was counted, only if it
\* is permitted, by the answers that were paid for.
LEMMA AllowedIsPermitted ==
  ASSUME NEW b \in Backends, RouterTypeOK, SpendIsCounted, Allows(b)
  PROVE  Permitted(b)
<1>1. CASE b = "local"
  BY <1>1 DEF Allows, Provider, Permitted
<1>2. CASE b # "local"
  <2>1. /\ "openrouter" \in policy.providers /\ ~policy.private
        /\ WithinBudget(spend)
    BY <1>2 DEF Allows, Provider, CloudAllowed
  <2>2. paid \in Nat /\ spend \in Nat /\ policy.budget \in Nat
    BY RouterAssumption DEF RouterTypeOK, PolicyType
  <2>3. WithinBudget(paid)
    BY <2>1, <2>2 DEF WithinBudget, SpendIsCounted
  <2> QED BY <1>2, <2>1, <2>3 DEF Permitted
<1> QED BY <1>1, <1>2

LEMMA Optional ==
  ASSUME NEW b \in Backends, RouterTypeOK, SpendIsCounted
  PROVE  /\ Lawful(IfAvailable(b))
         /\ Available(b) => Includes(IfAvailable(b), b)
<1>1. CASE Available(b)
  <2>1. Permitted(b)
    BY <1>1, AllowedIsPermitted DEF Available
  <2> QED BY <1>1, <2>1, Single DEF IfAvailable
<1>2. CASE ~Available(b)
  <2>1. IfAvailable(b) = <<>> /\ Len(<<>>) = 0 /\ <<>> \in Seq(Backends)
    BY <1>2 DEF IfAvailable
  <2> QED BY <1>2, <2>1 DEF Lawful
<1> QED BY <1>1, <1>2

LEMMA Fallbacks ==
  ASSUME NEW a \in Backends, NEW b \in Backends, RouterTypeOK, SpendIsCounted
  PROVE  /\ Lawful(FallbackChain(a, b))
         /\ Available(b) => Includes(FallbackChain(a, b), b)
BY Optional, Joined DEF FallbackChain

\* A chain that begins with a permitted backend and goes on with a lawful one.
LEMMA Headed ==
  ASSUME NEW b \in Backends, Permitted(b), NEW s, Lawful(s)
  PROVE  /\ Lawful(<<b>> \o s)
         /\ <<b>> \o s # <<>>
         /\ Includes(<<b>> \o s, b)
         /\ \A c : Includes(s, c) => Includes(<<b>> \o s, c)
<1>1. Lawful(<<b>>) /\ Includes(<<b>>, b)
  BY Single
<1>2. /\ Lawful(<<b>> \o s) /\ Includes(<<b>> \o s, b)
      /\ \A c : Includes(s, c) => Includes(<<b>> \o s, c)
  BY <1>1, Joined
<1>3. <<b>> \o s # <<>>
  BY <1>2 DEF Includes
<1> QED BY <1>2, <1>3

\* What choose returns: a lawful chain, empty only where the local model is not
\* permitted, which includes the local model where that may be tried.
LEMMA Chosen ==
  ASSUME RouterTypeOK, SpendIsCounted, NEW attempt \in Nat
  PROVE  /\ Lawful(Chain(attempt))
         /\ Permitted("local") => Chain(attempt) # <<>>
         /\ Permitted("local") /\ "local" \notin open
              => Includes(Chain(attempt), "local")
<1> DEFINE Goal(s) == /\ Lawful(s)
                      /\ Permitted("local") => s # <<>>
                      /\ Permitted("local") /\ "local" \notin open
                           => Includes(s, "local")
<1>b. "local" \in Backends /\ "cloud" \in Backends /\ "premium" \in Backends
  BY DEF Backends
<1>1. ASSUME Permitted("local") PROVE Goal(<<"local">>)
  <2>1. Lawful(<<"local">>) /\ Includes(<<"local">>, "local")
    BY <1>1, <1>b, Single
  <2> QED BY <2>1
<1>2. CASE policy.private
  BY <1>1, <1>2 DEF Chain, Permitted
<1>3. CASE ~policy.private /\ "ollama" \notin policy.providers
  <2>1. ~Permitted("local")
    BY <1>3 DEF Permitted
  <2>2. CASE Available("cloud")
    <3>1. Permitted("cloud")
      BY <2>2, <1>b, AllowedIsPermitted DEF Available
    <3> QED BY <1>3, <2>1, <2>2, <3>1, <1>b, Single DEF Chain, CloudOnly
  <2>3. CASE ~Available("cloud")
    BY <1>3, <2>1, <2>3, <1>b, Optional DEF Chain, CloudOnly
  <2> QED BY <2>2, <2>3
<1>4. CASE ~policy.private /\ "ollama" \in policy.providers
  <2>1. Permitted("local") /\ Allows("local")
    BY <1>4 DEF Permitted, Allows, Provider
  <2>2. "local" \notin open => Available("local")
    BY <2>1 DEF Available
  <2>3. Goal(LocalTier)
    <3>1. Lawful(FallbackChain("cloud", "premium"))
      BY <1>b, Fallbacks
    <3> QED BY <3>1, <2>1, <1>b, Headed DEF LocalTier
  <2>4. ASSUME Allows("cloud") PROVE Goal(StandardTier)
    <3>1. Permitted("cloud")
      BY <2>4, <1>b, AllowedIsPermitted
    <3>2. /\ Lawful(FallbackChain("premium", "local"))
          /\ Available("local")
               => Includes(FallbackChain("premium", "local"), "local")
      BY <1>b, Fallbacks
    <3> QED BY <3>1, <3>2, <2>2, <1>b, Headed DEF StandardTier
  <2>5. ASSUME Allows("premium") PROVE Goal(PremiumTier)
    <3>1. Permitted("premium")
      BY <2>5, <1>b, AllowedIsPermitted
    <3>2. /\ Lawful(FallbackChain("cloud", "local"))
          /\ Available("local")
               => Includes(FallbackChain("cloud", "local"), "local")
      BY <1>b, Fallbacks
    <3> QED BY <3>1, <3>2, <2>2, <1>b, Headed DEF PremiumTier
  <2>6. ASSUME Allows("cloud") PROVE Goal(<<"cloud">> \o IfAvailable("local"))
    <3>1. Permitted("cloud")
      BY <2>6, <1>b, AllowedIsPermitted
    <3>2. /\ Lawful(IfAvailable("local"))
          /\ Available("local") => Includes(IfAvailable("local"), "local")
      BY <1>b, Optional
    <3> QED BY <3>1, <3>2, <2>2, <1>b, Headed
  <2>7. Goal(CloudTier(attempt))
    <3>1. Goal(<<"local">>)
      BY <1>1, <2>1
    <3> HIDE DEF Goal
    <3> QED BY <3>1, <2>4, <2>5, <2>6 DEF CloudTier
  <2>8. Chain(attempt) = LocalTier \/ Chain(attempt) = CloudTier(attempt)
    BY <1>4 DEF Chain
  <2> HIDE DEF Goal
  <2>9. Goal(Chain(attempt))
    BY <2>3, <2>7, <2>8
  <2> QED BY <2>9 DEF Goal
<1> QED BY <1>2, <1>3, <1>4

-----------------------------------------------------------------------------
(* The steps of the router                                                 *)

LEMMA CostsAreNaturals ==
  ASSUME RouterTypeOK
  PROVE  /\ MaxSpend \in Nat /\ spend \in Nat /\ paid \in Nat
         /\ spend <= MaxSpend /\ paid <= MaxSpend
BY RouterAssumption DEF RouterTypeOK

LEMMA ChooseKeepsInv ==
  ASSUME RouterInv, NEW attempt \in Nat, Choose(attempt)
  PROVE  RouterInv'
<1>1. RouterTypeOK /\ SpendIsCounted
  BY DEF RouterInv
<1>2. /\ Lawful(chain')
      /\ Permitted("local") => chain' # <<>>
      /\ Permitted("local") /\ "local" \notin open => Includes(chain', "local")
  BY <1>1, Chosen DEF Choose
<1>p. /\ position' = 0 /\ lastCost' = FALSE /\ reply' \in {"none", "unavailable"}
      /\ UNCHANGED <<policy, open, slow, spend, paid, priced>>
  BY DEF Choose
<1>3. chain' \in Seq(Backends) /\ Len(chain') \in Nat
  <2>1. chain' \in Seq(Backends)
    BY <1>2 DEF Lawful
  <2> QED BY <2>1
<1>4. notes' \in BOOLEAN
  BY DEF Choose, NotesFallback
<1>l. localWell' \in BOOLEAN /\ (localWell' => "local" \notin open')
  BY DEF Choose
<1>t. RouterTypeOK'
  <2>1. position' \in 0..Len(chain')
    BY <1>3, <1>p
  <2> QED BY <1>1, <1>3, <1>4, <1>l, <1>p, <2>1 DEF RouterTypeOK, Failures
<1>5. SpendIsCounted'
  BY <1>1 DEF SpendIsCounted, Choose
<1>6. LocalIsAhead'
  <2>1. Permitted("local")' = Permitted("local")
    BY DEF Permitted, Choose
  <2>2. ASSUME localWell', Permitted("local") PROVE Includes(chain', "local")
    BY <1>2, <2>2 DEF Choose
  <2> QED BY <1>3, <1>p, <2>1, <2>2 DEF LocalIsAhead, Includes
<1> QED BY <1>l, <1>t, <1>5, <1>6 DEF RouterInv

\* A failed or skipped backend: the request goes on behind it.
LEMMA FallBackKeepsInv ==
  ASSUME RouterInv, NEW b \in Backends, SkipOpen(b) \/ Fails(b)
  PROVE  RouterInv'
<1>0. /\ open \subseteq Backends /\ localWell \in BOOLEAN
      /\ (localWell => "local" \notin open)
  BY DEF RouterInv, RouterTypeOK
<1>1. /\ Trying(b) /\ FallBack
      /\ (localWell' => localWell /\ b # "local" /\ "local" \notin open')
      /\ open' \subseteq Backends /\ localWell' \in BOOLEAN
  <2>1. CASE SkipOpen(b)
    BY <1>0, <2>1 DEF SkipOpen
  <2>2. CASE Fails(b)
    <3>1. localWell' \in BOOLEAN /\ (localWell' => localWell /\ b # "local")
      BY <2>2 DEF Fails
    <3>2. open' = open \cup {b} /\ Trying(b) /\ FallBack
      BY <2>2 DEF Fails
    <3> QED BY <1>0, <3>1, <3>2
  <2> QED BY <2>1, <2>2
<1>2. /\ chain \in Seq(Backends) /\ Len(chain) \in Nat
      /\ position \in 1..Len(chain) /\ chain[position] = b
  BY <1>1 DEF RouterInv, RouterTypeOK, Trying
<1>3. RouterTypeOK'
  BY <1>1, <1>2 DEF RouterInv, RouterTypeOK, FallBack, Failures
<1>4. SpendIsCounted'
  BY <1>1 DEF RouterInv, SpendIsCounted, FallBack
<1>5. LocalIsAhead'
  <2> SUFFICES ASSUME localWell', Permitted("local")'
               PROVE  \E k \in 1..Len(chain) : k >= position' /\ chain[k] = "local"
    BY <1>1 DEF LocalIsAhead, FallBack
  <2>1. localWell /\ Permitted("local") /\ b # "local" /\ chain # <<>>
    BY <1>1, <1>2 DEF Permitted, FallBack
  <2>2. PICK k \in 1..Len(chain) : k >= position /\ chain[k] = "local"
    BY <2>1 DEF RouterInv, LocalIsAhead
  <2>3. k # position
    BY <1>2, <2>1, <2>2
  <2>4. k >= position'
    BY <1>1, <1>2, <2>2, <2>3 DEF FallBack
  <2> QED BY <2>2, <2>4
<1> QED BY <1>1, <1>3, <1>4, <1>5 DEF RouterInv

\* An answer is recorded at one level of the chain.
LEMMA RecordedOnce ==
  ASSUME NEW k \in Nat \ {0}
  PROVE  Recorded(k) = 1
<1>1. {j \in 1..k : Records(j)} = {1}
  BY DEF Records
<1> QED BY <1>1, FS_Singleton DEF Recorded

LEMMA AnswersKeepsInv ==
  ASSUME RouterInv, NEW b \in Backends, NEW usage \in Usages, Answers(b, usage)
  PROVE  RouterInv'
<1>1. /\ MaxSpend \in Nat /\ spend \in Nat /\ paid \in Nat
      /\ spend <= MaxSpend /\ paid <= MaxSpend /\ paid <= spend
      /\ (priced => spend = paid)
  BY CostsAreNaturals DEF RouterInv, SpendIsCounted
<1>2. position \in Nat \ {0} /\ chain \in Seq(Backends)
      /\ Len(chain) \in Nat /\ position' = 0 /\ chain' = chain
  BY DEF RouterInv, RouterTypeOK, Answers, Trying
<1>3. \/ UNCHANGED <<lastCost, spend, slow>>
      \/ /\ lastCost' = (lastCost \/ usage = "priced") /\ slow' \in BOOLEAN
         /\ spend' = IF lastCost' THEN UpTo(spend + 1) ELSE spend
  BY <1>2, RecordedOnce DEF Answers, RecordResponse
<1>4. /\ spend' \in 0..MaxSpend /\ paid' \in 0..MaxSpend
      /\ SpendIsCounted'
  <2>1. CASE b = "local"
    <3>1. paid' = paid /\ spend' = spend
      BY <2>1 DEF Answers
    <3>2. priced' => priced
      BY <2>1 DEF Answers
    <3> QED BY <1>1, <3>1, <3>2 DEF SpendIsCounted
  <2>2. CASE b # "local" /\ usage # "priced"
    <3>1. paid' = paid
      BY <2>2 DEF Answers
    <3>2. ~priced'
      BY <2>2 DEF Answers
    <3>3. spend' = spend \/ spend' = UpTo(spend + 1)
      BY <1>3
    <3> QED BY <1>1, <3>1, <3>2, <3>3 DEF SpendIsCounted, UpTo
  <2>3. CASE b # "local" /\ usage = "priced"
    <3>1. paid' = UpTo(paid + 1)
      BY <2>3 DEF Answers
    <3>2. priced' => priced
      BY <2>3 DEF Answers
    <3>3. RecordResponse(usage)
      BY <2>3 DEF Answers
    <3>4. lastCost'
      BY <2>3, <3>3 DEF RecordResponse
    <3>5. spend' = UpTo(spend + 1)
      BY <1>2, <3>3, <3>4, RecordedOnce DEF RecordResponse
    <3> QED BY <1>1, <3>1, <3>2, <3>5 DEF SpendIsCounted, UpTo
  <2> QED BY <2>1, <2>2, <2>3
<1>5. lastCost' \in BOOLEAN /\ slow' \in BOOLEAN /\ priced' \in BOOLEAN
  BY <1>3 DEF RouterInv, RouterTypeOK, Answers
<1>6. RouterTypeOK'
  BY <1>2, <1>4, <1>5 DEF RouterInv, RouterTypeOK, Answers
<1>7. LocalIsAhead'
  <2>1. \A k \in 1..Len(chain) : k >= position'
    BY <1>2
  <2> QED BY <2>1 DEF RouterInv, LocalIsAhead, Answers, Permitted
<1> QED BY <1>4, <1>6, <1>7 DEF RouterInv, Answers

LEMMA OthersKeepInv ==
  ASSUME RouterInv,
         \/ StartRequest \/ TakeReply \/ Restart
         \/ \E b \in Backends : Garbles(b) \/ Elapse(b)
         \/ UNCHANGED routerVars
  PROVE  RouterInv'
<1>1. chain \in Seq(Backends) /\ Len(chain) \in Nat /\ position \in Nat
  BY DEF RouterInv, RouterTypeOK
<1>2. CASE StartRequest
  <2>1. position' = 1 /\ 1 \in 1..Len(chain) /\ \A k \in 1..Len(chain) : k >= 1
    BY <1>1, <1>2 DEF StartRequest
  <2>2. RouterTypeOK'
    BY <1>2, <2>1 DEF StartRequest, RouterInv, RouterTypeOK
  <2>3. LocalIsAhead'
    BY <1>2, <2>1 DEF StartRequest, RouterInv, LocalIsAhead, Permitted
  <2> QED BY <1>2, <2>2, <2>3 DEF StartRequest, RouterInv, SpendIsCounted
<1>3. CASE TakeReply
  BY <1>3 DEF TakeReply, RouterInv, RouterTypeOK, SpendIsCounted, LocalIsAhead,
              Permitted
<1>4. CASE Restart
  <2>1. open' \subseteq Backends /\ chain' = <<>> /\ position' = 0 /\ Len(chain') = 0
    BY <1>4, RouterAssumption DEF Restart, FreshProcess
  <2>2. localWell' \in BOOLEAN /\ (localWell' => "local" \notin open')
    BY <1>4 DEF Restart
  <2>f. /\ slow' = FALSE /\ spend' = 0 /\ paid' = 0 /\ priced' = TRUE
        /\ lastCost' = FALSE /\ notes' = FALSE /\ reply' = "none"
        /\ policy' = policy
    BY <1>4 DEF Restart, FreshProcess
  <2>3. RouterTypeOK'
    <3>1. position' \in 0..Len(chain') /\ chain' \in Seq(Backends)
      BY <2>1
    <3>2. 0 \in 0..MaxSpend /\ policy \in Policies
      BY RouterAssumption DEF RouterInv, RouterTypeOK
    <3> QED BY <2>1, <2>2, <2>f, <3>1, <3>2 DEF RouterTypeOK
  <2>4. SpendIsCounted' /\ LocalIsAhead'
    BY <1>4, <2>1 DEF Restart, FreshProcess, SpendIsCounted, LocalIsAhead
  <2> QED BY <2>2, <2>3, <2>4 DEF RouterInv
<1>5. ASSUME NEW b \in Backends, Garbles(b) PROVE RouterInv'
  <2>1. \A k \in 1..Len(chain) : k >= 0
    OBVIOUS
  <2>2. RouterTypeOK'
    BY <1>1, <1>5 DEF Garbles, RouterInv, RouterTypeOK, Failures
  <2>3. LocalIsAhead'
    BY <1>5, <2>1 DEF Garbles, RouterInv, LocalIsAhead, Permitted
  <2> QED BY <1>5, <2>2, <2>3 DEF Garbles, RouterInv, SpendIsCounted
<1>6. ASSUME NEW b \in Backends, Elapse(b) PROVE RouterInv'
  BY <1>6 DEF Elapse, RouterInv, RouterTypeOK, SpendIsCounted, LocalIsAhead,
              Permitted
<1>7. CASE UNCHANGED routerVars
  BY <1>7 DEF routerVars, RouterInv, RouterTypeOK, SpendIsCounted, LocalIsAhead,
              Permitted
<1> QED BY <1>2, <1>3, <1>4, <1>5, <1>6, <1>7

-----------------------------------------------------------------------------
(* Theorems                                                                *)

\* The inductive invariant holds in every reachable state.
THEOREM RouterInvariant == RouterSpec => []RouterInv
<1>1. RouterInit => RouterInv
  <2> SUFFICES ASSUME RouterInit PROVE RouterInv
    OBVIOUS
  <2>1. open \subseteq Backends /\ Len(<<>>) = 0 /\ chain \in Seq(Backends)
    BY RouterAssumption DEF RouterInit
  <2>2. localWell \in BOOLEAN /\ (localWell => "local" \notin open)
    BY DEF RouterInit
  <2>f. /\ slow = FALSE /\ spend = 0 /\ paid = 0 /\ priced = TRUE
        /\ lastCost = FALSE /\ notes = FALSE /\ reply = "none"
        /\ policy \in Policies /\ position = 0 /\ chain = <<>>
    BY DEF RouterInit
  <2>3. RouterTypeOK
    <3>1. position \in 0..Len(chain)
      BY <2>f
    <3>2. 0 \in 0..MaxSpend
      BY RouterAssumption
    <3> QED BY <2>1, <2>2, <2>f, <3>1, <3>2 DEF RouterTypeOK
  <2>4. SpendIsCounted /\ LocalIsAhead
    BY DEF RouterInit, SpendIsCounted, LocalIsAhead
  <2> QED BY <2>2, <2>3, <2>4 DEF RouterInv
<1>2. RouterInv /\ [RouterNext]_routerVars => RouterInv'
  BY ChooseKeepsInv, FallBackKeepsInv, AnswersKeepsInv, OthersKeepInv
     DEF RouterNext
<1> QED BY <1>1, <1>2, PTL DEF RouterSpec

\* The state of the router keeps its type: a request never runs off its chain
\* and costs stay within their bound.
THEOREM RouterTypeCorrect == RouterSpec => []RouterTypeOK
<1>1. RouterInv => RouterTypeOK
  BY DEF RouterInv
<1> QED BY <1>1, RouterInvariant, PTL

\* Spending is counted once per answer, whatever the chain of fallbacks.
THEOREM SpendingIsCounted == RouterSpec => []SpendIsCounted
<1>1. RouterInv => SpendIsCounted
  BY DEF RouterInv
<1> QED BY <1>1, RouterInvariant, PTL

\* No chain that would be built leads to a backend the policy rules out, for
\* any policy and any first cloud attempt.
THEOREM PolicyIsAlwaysKept == RouterSpec => []PolicyIsKept
<1>1. RouterInv => PolicyIsKept
  <2> SUFFICES ASSUME RouterInv, NEW attempt \in 1..(EscalateAfter + 1)
               PROVE  \A k \in DOMAIN Chain(attempt) : Permitted(Chain(attempt)[k])
    BY DEF PolicyIsKept
  <2>1. attempt \in Nat
    BY RouterAssumption
  <2>2. Lawful(Chain(attempt))
    BY <2>1, Chosen DEF RouterInv
  <2>3. DOMAIN Chain(attempt) = 1..Len(Chain(attempt))
    BY <2>2 DEF Lawful
  <2> QED BY <2>2, <2>3 DEF Lawful
<1> QED BY <1>1, RouterInvariant, PTL

\* A request that fails for lack of a backend has met, or knew of, a local
\* model that did not answer, wherever the local model may be used.
THEOREM AlwaysWalksBack == RouterSpec => WalksBack
<1> DEFINE Walked == reply # "unavailable" /\ reply' = "unavailable"
                       /\ Permitted("local") => ~localWell'
<1>1. RouterInv /\ [RouterNext]_routerVars => [Walked]_routerVars
  <2> SUFFICES ASSUME RouterInv, RouterNext, reply # "unavailable",
                      reply' = "unavailable", Permitted("local")
               PROVE  ~localWell'
    OBVIOUS
  <2>1. ASSUME NEW attempt \in Nat, Choose(attempt) PROVE FALSE
    BY <2>1, Chosen DEF Choose, RouterInv
  <2>2. ASSUME NEW b \in Backends, SkipOpen(b) \/ Fails(b) PROVE ~localWell'
    <3>0. Trying(b) /\ FallBack
      BY <2>2 DEF SkipOpen, Fails
    <3>1. localWell' => localWell /\ b # "local"
      BY <2>2 DEF SkipOpen, Fails, RouterInv
    <3>2. /\ Len(chain) \in Nat /\ position \in 1..Len(chain)
          /\ chain[position] = b /\ chain # <<>>
      BY <3>0 DEF Trying, RouterInv, RouterTypeOK
    <3>3. ~(position < Len(chain))
      BY <3>0 DEF FallBack
    <3> QED BY <3>1, <3>2, <3>3 DEF RouterInv, LocalIsAhead
  <2>3. ASSUME \/ StartRequest \/ TakeReply \/ Restart
               \/ \E b \in Backends : \/ Garbles(b) \/ Elapse(b)
                                      \/ \E usage \in Usages : Answers(b, usage)
        PROVE  FALSE
    BY <2>3 DEF StartRequest, TakeReply, Restart, FreshProcess, Garbles, Elapse,
                Answers, Backends
  <2> QED BY <2>1, <2>2, <2>3 DEF RouterNext
<1> QED BY <1>1, RouterInvariant, PTL DEF RouterSpec, WalksBack
=============================================================================
