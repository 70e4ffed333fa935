------------------------- MODULE ConfigurationProofs ------------------------
(***************************************************************************)
(* That one claim becomes the owner, that the runtime cache is fresh       *)
(* unless a load was crossed by a save, what saves keep and probe, and the *)
(* types, for every number of tasks, claims, processes and requests.       *)
(***************************************************************************)
EXTENDS Configuration, FiniteSetTheorems, TLAPS

ClaimSteps == {"claim", "claiming"}
SaveSteps == {"probing", "saving"}
RuntimeSteps == {"loading", "filling", "form", "writing", "flushed"}

\* Who is in a claim, has it alone, and has no answer yet; who saves provider
\* settings has signed in; there is at most one owner, who is answered so.
Claimed ==
  /\ \A t \in Tasks : request[t].step \in ClaimSteps =>
       request[t].about \in DOMAIN Claims /\ answer[request[t].about] = "pending"
  /\ \A t, u \in Tasks :
       request[t].step \in ClaimSteps /\ request[u].step \in ClaimSteps /\ t # u =>
         request[t].about # request[u].about
  /\ \A t \in Tasks : request[t].step \in SaveSteps => owners # {}
  /\ owners = {} \/ \E c \in DOMAIN Claims : owners = {c}
  /\ \A c \in DOMAIN Claims : answer[c] = "owner" <=> c \in owners
  /\ \A c \in DOMAIN Claims : answer[c] = "refused" => owners # {}
  /\ owners = {} => \A k \in Keys : stored[k] = ""

\* A task of another process has no runtime settings in hand, who has flushed has
\* the write lock, and while somebody has it the cache is empty or known to be crossed.
Cached ==
  /\ \A t \in Tasks : request[t].step \in RuntimeSteps => t \in Here
  /\ \A t \in Tasks : request[t].step = "flushed" => writer = t
  /\ writer # Nobody => cache = {} \/ crossed
  /\ CacheIsFresh

Functions ==
  /\ request = [t \in Tasks |-> request[t]]
  /\ answer = [c \in DOMAIN Claims |-> answer[c]]
  /\ stored = [k \in Keys |-> stored[k]]

IInv == Functions /\ Claimed /\ Cached

-----------------------------------------------------------------------------
\* What a step does to the requests if it answers no claim and stores nothing.
Quiet ==
  /\ UNCHANGED <<owners, answer, stored>>
  /\ \A u \in Tasks :
       /\ request'[u].step \in ClaimSteps =>
            request[u].step \in ClaimSteps /\ request'[u].about = request[u].about
       /\ request'[u].step \in SaveSteps => request[u].step \in SaveSteps \/ owners # {}

LEMMA QuietKeepsClaimed ==
  ASSUME Claimed, Quiet
  PROVE  Claimed'
<1>1. UNCHANGED <<owners, answer, stored>>
  BY DEF Quiet
<1>2. \A t \in Tasks : request'[t].step \in ClaimSteps =>
        request'[t].about \in DOMAIN Claims /\ answer'[request'[t].about] = "pending"
  BY <1>1 DEF Claimed, Quiet
<1>3. \A t, u \in Tasks :
        request'[t].step \in ClaimSteps /\ request'[u].step \in ClaimSteps /\ t # u =>
          request'[t].about # request'[u].about
  <2> SUFFICES ASSUME NEW t \in Tasks, NEW u \in Tasks, t # u,
                      request'[t].step \in ClaimSteps, request'[u].step \in ClaimSteps
               PROVE  request'[t].about # request'[u].about
    OBVIOUS
  <2>1. /\ request[t].step \in ClaimSteps /\ request'[t].about = request[t].about
        /\ request[u].step \in ClaimSteps /\ request'[u].about = request[u].about
    BY DEF Quiet
  <2> QED
    BY <2>1 DEF Claimed
<1>4. \A t \in Tasks : request'[t].step \in SaveSteps => owners' # {}
  BY <1>1 DEF Claimed, Quiet
<1> QED
  BY <1>1, <1>2, <1>3, <1>4 DEF Claimed

\* The same for a step that leaves the rows of app_settings, the cache and the lock.
QuietAboutRuntime ==
  /\ UNCHANGED <<rows, cache, writer, crossed>>
  /\ \A u \in Tasks :
       /\ request'[u].step \in RuntimeSteps => u \in Here
       /\ request'[u].step = "flushed" => request[u].step = "flushed"

LEMMA QuietKeepsCached ==
  ASSUME Cached, QuietAboutRuntime
  PROVE  Cached'
BY DEF Cached, QuietAboutRuntime, CacheIsFresh, Here

LEMMA InitInv == Init => IInv
<1> SUFFICES ASSUME Init PROVE IInv
  OBVIOUS
<1>1. Functions
  BY DEF Init, Functions
<1>2. \A t \in Tasks : request[t].step = "idle"
  BY DEF Init, Idle
<1>3. Claimed
  BY <1>2 DEF Init, Claimed, ClaimSteps, SaveSteps
<1>4. Cached
  BY <1>2 DEF Init, Cached, RuntimeSteps, CacheIsFresh
<1> QED
  BY <1>1, <1>3, <1>4 DEF IInv

\* Requests at a step that others do not move.
LEMMA BeginFacts ==
  ASSUME Functions, NEW t \in Tasks, NEW step, NEW about, NEW stale, Begin(t, step, about, stale)
  PROVE  /\ request' = [u \in Tasks |-> request'[u]]
         /\ request[t].step = "idle"
         /\ request'[t].step = step /\ request'[t].about = about
         /\ \A u \in Tasks \ {t} : request'[u] = request[u]
BY DEF Functions, Begin, Idle

LEMMA GoesFacts ==
  ASSUME Functions, NEW t \in Tasks, NEW step, NEW about, Goes(t, step, about)
  PROVE  /\ request' = [u \in Tasks |-> request'[u]]
         /\ request'[t].step = step /\ request'[t].about = about
         /\ \A u \in Tasks \ {t} : request'[u] = request[u]
BY DEF Functions, Goes

LEMMA EndsFacts ==
  ASSUME NEW t \in Tasks, NEW steps, Ends(t, steps)
  PROVE  /\ request' = [u \in Tasks |-> request'[u]]
         /\ request'[t].step = "idle"
         /\ \A u \in Tasks \ {t} :
              request'[u].step = request[u].step /\ request'[u].about = request[u].about
BY DEF Ends, Idle

-----------------------------------------------------------------------------
(* Claims.                                                                 *)

LEMMA EndsKeepsApart ==
  ASSUME Claimed, NEW t \in Tasks, request'[t].step = "idle",
         \A u \in Tasks \ {t} :
           request'[u].step = request[u].step /\ request'[u].about = request[u].about
  PROVE  \A u, v \in Tasks :
           request'[u].step \in ClaimSteps /\ request'[v].step \in ClaimSteps /\ u # v =>
             request'[u].about # request'[v].about
<1> SUFFICES ASSUME NEW u \in Tasks, NEW v \in Tasks, u # v,
                    request'[u].step \in ClaimSteps, request'[v].step \in ClaimSteps
             PROVE  request'[u].about # request'[v].about
  OBVIOUS
<1>1. u # t /\ v # t
  BY DEF ClaimSteps
<1>2. /\ request[u].step \in ClaimSteps /\ request'[u].about = request[u].about
      /\ request[v].step \in ClaimSteps /\ request'[v].about = request[v].about
  BY <1>1
<1>3. request[u].about # request[v].about
  BY <1>2 DEF Claimed
<1> QED
  BY <1>2, <1>3

LEMMA ClaimInv ==
  ASSUME IInv, NEW t \in Tasks, Claim(t)
  PROVE  IInv'
<1>1. PICK c \in DOMAIN Claims :
        /\ owners = {} /\ answer[c] = "none"
        /\ answer' = [answer EXCEPT ![c] = "pending"]
        /\ Begin(t, "claim", c, FALSE)
  BY DEF Claim
<1>2. UNCHANGED <<owners, stored>> /\ UNCHANGED runtime
  BY DEF Claim
<1>3. /\ request' = [u \in Tasks |-> request'[u]]
      /\ request[t].step = "idle"
      /\ request'[t].step = "claim" /\ request'[t].about = c
      /\ \A u \in Tasks \ {t} : request'[u] = request[u]
  BY <1>1, BeginFacts DEF IInv
<1>4. /\ answer' = [d \in DOMAIN Claims |-> answer'[d]]
      /\ answer'[c] = "pending"
      /\ \A d \in DOMAIN Claims \ {c} : answer'[d] = answer[d]
  BY <1>1 DEF IInv, Functions
<1>5. Functions'
  BY <1>2, <1>3, <1>4 DEF IInv, Functions
<1>6. \A u \in Tasks : request[u].step \in ClaimSteps => request[u].about # c
  BY <1>1 DEF IInv, Claimed
<1>7. Claimed'
  <2>1. \A u \in Tasks : request'[u].step \in ClaimSteps =>
          request'[u].about \in DOMAIN Claims /\ answer'[request'[u].about] = "pending"
    <3> SUFFICES ASSUME NEW u \in Tasks, request'[u].step \in ClaimSteps
                 PROVE  request'[u].about \in DOMAIN Claims /\ answer'[request'[u].about] = "pending"
      OBVIOUS
    <3>1. CASE u = t
      BY <1>3, <1>4, <3>1
    <3>2. CASE u # t
      <4>1. request'[u] = request[u] /\ request[u].step \in ClaimSteps
        BY <1>3, <3>2
      <4>2. request[u].about \in DOMAIN Claims /\ answer[request[u].about] = "pending"
        BY <4>1 DEF IInv, Claimed
      <4> QED
        BY <1>4, <1>6, <4>1, <4>2
    <3> QED
      BY <3>1, <3>2
  <2>2. \A u, v \in Tasks :
          request'[u].step \in ClaimSteps /\ request'[v].step \in ClaimSteps /\ u # v =>
            request'[u].about # request'[v].about
    <3> SUFFICES ASSUME NEW u \in Tasks, NEW v \in Tasks, u # v,
                        request'[u].step \in ClaimSteps, request'[v].step \in ClaimSteps
                 PROVE  request'[u].about # request'[v].about
      OBVIOUS
    <3>1. CASE u = t
      BY <1>3, <1>6, <3>1
    <3>2. CASE v = t
      BY <1>3, <1>6, <3>2
    <3>3. CASE u # t /\ v # t
      <4>1. request'[u] = request[u] /\ request'[v] = request[v]
        BY <1>3, <3>3
      <4>2. request[u].step \in ClaimSteps /\ request[v].step \in ClaimSteps
        BY <4>1
      <4>3. request[u].about # request[v].about
        BY <4>2 DEF IInv, Claimed
      <4> QED
        BY <4>1, <4>3
    <3> QED
      BY <3>1, <3>2, <3>3
  <2>3. \A u \in Tasks : request'[u].step \in SaveSteps => owners' # {}
    BY <1>2, <1>3 DEF IInv, Claimed, SaveSteps
  <2>4. \A d \in DOMAIN Claims : answer'[d] = "owner" <=> d \in owners'
    BY <1>1, <1>2, <1>4 DEF IInv, Claimed
  <2>5. \A d \in DOMAIN Claims : answer'[d] = "refused" => owners' # {}
    BY <1>1, <1>2, <1>4 DEF IInv, Claimed
  <2> QED
    BY <1>2, <2>1, <2>2, <2>3, <2>4, <2>5 DEF IInv, Claimed
<1>8. QuietAboutRuntime
  BY <1>2, <1>3 DEF runtime, QuietAboutRuntime, IInv, Cached, RuntimeSteps
<1> QED
  BY <1>5, <1>7, <1>8, QuietKeepsCached DEF IInv

\* One who has been in a claim goes, and no answer but its own changes.
LEMMA RefuseKeepsClaimed ==
  ASSUME Functions, Claimed, NEW t \in Tasks, request[t].step \in ClaimSteps,
         owners # {}, Refuse(t)
  PROVE  Functions' /\ Claimed'
<1> DEFINE c == request[t].about
<1>1. c \in DOMAIN Claims /\ answer[c] = "pending"
  BY DEF Claimed
<1>2. UNCHANGED <<owners, stored>>
  BY DEF Refuse
<1>3. /\ answer' = [d \in DOMAIN Claims |-> answer'[d]]
      /\ answer'[c] = "refused"
      /\ \A d \in DOMAIN Claims \ {c} : answer'[d] = answer[d]
  BY <1>1 DEF Refuse, Functions
<1>4. /\ request' = [u \in Tasks |-> request'[u]]
      /\ request'[t].step = "idle"
      /\ \A u \in Tasks \ {t} :
           request'[u].step = request[u].step /\ request'[u].about = request[u].about
  BY EndsFacts DEF Refuse
<1>5. \A u \in Tasks \ {t} : request[u].step \in ClaimSteps => request[u].about # c
  BY DEF Claimed
<1>6. Functions'
  BY <1>2, <1>3, <1>4 DEF Functions
<1>7. \A u \in Tasks : request'[u].step \in ClaimSteps =>
        request'[u].about \in DOMAIN Claims /\ answer'[request'[u].about] = "pending"
  <2> SUFFICES ASSUME NEW u \in Tasks, request'[u].step \in ClaimSteps
               PROVE  request'[u].about \in DOMAIN Claims /\ answer'[request'[u].about] = "pending"
    OBVIOUS
  <2>1. u # t
    BY <1>4 DEF ClaimSteps
  <2>2. request[u].step \in ClaimSteps /\ request'[u].about = request[u].about
    BY <1>4, <2>1
  <2>3. request[u].about \in DOMAIN Claims \ {c} /\ answer[request[u].about] = "pending"
    BY <1>5, <2>1, <2>2 DEF Claimed
  <2> QED
    BY <1>3, <2>2, <2>3
<1>8. \A u, v \in Tasks :
        request'[u].step \in ClaimSteps /\ request'[v].step \in ClaimSteps /\ u # v =>
          request'[u].about # request'[v].about
  BY <1>4, EndsKeepsApart
<1>9. \A u \in Tasks : request'[u].step \in SaveSteps => owners' # {}
  BY <1>2
<1>10. \A d \in DOMAIN Claims : answer'[d] = "owner" <=> d \in owners'
  BY <1>1, <1>2, <1>3 DEF Claimed
<1> QED
  BY <1>2, <1>6, <1>7, <1>8, <1>9, <1>10 DEF Claimed

LEMMA EnterInv ==
  ASSUME IInv, NEW t \in Tasks, Enter(t)
  PROVE  IInv'
<1>1. request[t].step = "claim" /\ UNCHANGED runtime
  BY DEF Enter
<1>2. CASE owners # {} /\ Refuse(t)
  <2>1. Functions' /\ Claimed'
    BY <1>1, <1>2, RefuseKeepsClaimed DEF IInv, ClaimSteps
  <2>2. \A u \in Tasks : request'[u].step = "idle" \/ request'[u].step = request[u].step
    BY <1>2, EndsFacts DEF Refuse
  <2>3. QuietAboutRuntime
    BY <1>1, <2>2 DEF QuietAboutRuntime, runtime, IInv, Cached, RuntimeSteps
  <2> QED
    BY <2>1, <2>3, QuietKeepsCached DEF IInv
<1>3. CASE /\ Goes(t, "claiming", request[t].about)
           /\ UNCHANGED <<owners, answer, stored>>
  <2>1. /\ request' = [u \in Tasks |-> request'[u]]
        /\ request'[t].step = "claiming" /\ request'[t].about = request[t].about
        /\ \A u \in Tasks \ {t} : request'[u] = request[u]
    BY <1>3, GoesFacts DEF IInv
  <2>2. Quiet
    BY <1>1, <1>3, <2>1 DEF Quiet, ClaimSteps, SaveSteps
  <2>3. QuietAboutRuntime
    BY <1>1, <2>1 DEF QuietAboutRuntime, runtime, IInv, Cached, RuntimeSteps
  <2>4. Functions'
    BY <1>3, <2>1 DEF IInv, Functions
  <2> QED
    BY <2>2, <2>3, <2>4, QuietKeepsClaimed, QuietKeepsCached DEF IInv
<1> QED
  BY <1>2, <1>3 DEF Enter

LEMMA InsertInv ==
  ASSUME IInv, NEW t \in Tasks, Insert(t)
  PROVE  IInv'
<1>1. request[t].step = "claiming" /\ UNCHANGED runtime
  BY DEF Insert
<1>2. \A u \in Tasks : request'[u].step = "idle" \/ request'[u].step = request[u].step
  BY EndsFacts DEF Insert, Refuse
<1>3. QuietAboutRuntime
  BY <1>1, <1>2 DEF QuietAboutRuntime, runtime, IInv, Cached, RuntimeSteps
<1>4. CASE owners # {} /\ Refuse(t)
  BY <1>1, <1>3, <1>4, RefuseKeepsClaimed, QuietKeepsCached DEF IInv, ClaimSteps
<1>5. CASE owners = {}
  <2> DEFINE c == request[t].about
  <2>1. /\ owners' = owners \cup {c}
        /\ stored' = Saved(stored, Claims[c])
        /\ answer' = [answer EXCEPT ![c] = "owner"]
        /\ Ends(t, {})
    BY <1>5 DEF Insert
  <2>2. c \in DOMAIN Claims /\ answer[c] = "pending"
    BY <1>1 DEF IInv, Claimed, ClaimSteps
  <2>3. owners' = {c}
    BY <1>5, <2>1
  <2>4. /\ answer' = [d \in DOMAIN Claims |-> answer'[d]]
        /\ answer'[c] = "owner"
        /\ \A d \in DOMAIN Claims \ {c} : answer'[d] = answer[d]
    BY <2>1, <2>2 DEF IInv, Functions
  <2>5. /\ request' = [u \in Tasks |-> request'[u]]
        /\ request'[t].step = "idle"
        /\ \A u \in Tasks \ {t} :
             request'[u].step = request[u].step /\ request'[u].about = request[u].about
    BY <2>1, EndsFacts
  <2>6. stored' = [k \in Keys |-> stored'[k]]
    BY <2>1 DEF Saved
  <2>7. Functions'
    BY <2>4, <2>5, <2>6 DEF Functions
  <2>8. \A u \in Tasks \ {t} : request[u].step \in ClaimSteps => request[u].about # c
    BY <1>1 DEF IInv, Claimed, ClaimSteps
  <2>9. \A u \in Tasks : request'[u].step \in ClaimSteps =>
          request'[u].about \in DOMAIN Claims /\ answer'[request'[u].about] = "pending"
    <3> SUFFICES ASSUME NEW u \in Tasks, request'[u].step \in ClaimSteps
                 PROVE  request'[u].about \in DOMAIN Claims /\ answer'[request'[u].about] = "pending"
      OBVIOUS
    <3>1. u # t
      BY <2>5 DEF ClaimSteps
    <3>2. request[u].step \in ClaimSteps /\ request'[u].about = request[u].about
      BY <2>5, <3>1
    <3>3. request[u].about \in DOMAIN Claims \ {c} /\ answer[request[u].about] = "pending"
      BY <2>8, <3>1, <3>2 DEF IInv, Claimed
    <3> QED
      BY <2>4, <3>2, <3>3
  <2>10. \A u, v \in Tasks :
           request'[u].step \in ClaimSteps /\ request'[v].step \in ClaimSteps /\ u # v =>
             request'[u].about # request'[v].about
    BY <2>5, EndsKeepsApart DEF IInv
  <2>11. \A d \in DOMAIN Claims : answer'[d] = "owner" <=> d \in owners'
    <3>1. \A d \in DOMAIN Claims : answer[d] # "owner"
      BY <1>5 DEF IInv, Claimed
    <3> QED
      BY <2>3, <2>4, <3>1
  <2>12. Claimed'
    BY <2>2, <2>3, <2>9, <2>10, <2>11 DEF Claimed
  <2> QED
    BY <1>3, <2>7, <2>12, QuietKeepsCached DEF IInv
<1> QED
  BY <1>4, <1>5 DEF Insert
-----------------------------------------------------------------------------
(* Provider settings.                                                      *)

\* A signed-in request begins: no claim, and nothing of the setup changes.
LEMMA AsksInv ==
  ASSUME IInv, NEW t \in Tasks, NEW step, NEW about, NEW stale,
         Asks(t, step, about, stale), step \notin ClaimSteps, step # "flushed",
         UNCHANGED <<owners, answer, stored, rows, cache, writer, crossed>>
  PROVE  IInv'
<1>1. /\ t \in Here /\ owners # {}
      /\ request' = [u \in Tasks |-> request'[u]]
      /\ request[t].step = "idle"
      /\ request'[t].step = step /\ request'[t].about = about
      /\ \A u \in Tasks \ {t} : request'[u] = request[u]
  BY BeginFacts DEF Asks, IInv
<1>2. Quiet
  BY <1>1 DEF Quiet
<1>3. QuietAboutRuntime
  BY <1>1 DEF QuietAboutRuntime, IInv, Cached
<1>4. Functions'
  BY <1>1 DEF IInv, Functions
<1> QED
  BY <1>2, <1>3, <1>4, QuietKeepsClaimed, QuietKeepsCached DEF IInv

\* A request goes on, and nothing that is proved about changes.
LEMMA GoesInv ==
  ASSUME IInv, NEW t \in Tasks, NEW step, NEW about,
         Goes(t, step, about), step \notin ClaimSteps, step # "flushed",
         step \in SaveSteps => request[t].step \in SaveSteps,
         step \in RuntimeSteps => request[t].step \in RuntimeSteps,
         UNCHANGED <<owners, answer, stored, rows, cache, writer, crossed>>
  PROVE  IInv'
<1>1. /\ request' = [u \in Tasks |-> request'[u]]
      /\ request'[t].step = step
      /\ \A u \in Tasks \ {t} : request'[u] = request[u]
  BY GoesFacts DEF IInv
<1>2. Quiet
  BY <1>1 DEF Quiet
<1>3. QuietAboutRuntime
  BY <1>1 DEF QuietAboutRuntime, IInv, Cached
<1>4. Functions'
  BY <1>1 DEF IInv, Functions
<1> QED
  BY <1>2, <1>3, <1>4, QuietKeepsClaimed, QuietKeepsCached DEF IInv

\* A request goes or fails: its task is idle, and others are at the step they were.
LEMMA LeavesQuiet ==
  ASSUME Claimed, Cached, UNCHANGED <<owners, answer, stored>>,
         \A u \in Tasks :
           \/ request'[u].step = "idle"
           \/ request'[u].step = request[u].step /\ request'[u].about = request[u].about
  PROVE  /\ Quiet
         /\ UNCHANGED <<rows, cache, writer, crossed>> => QuietAboutRuntime
<1>1. Quiet
  BY DEF Quiet, ClaimSteps, SaveSteps
<1>2. ASSUME UNCHANGED <<rows, cache, writer, crossed>> PROVE QuietAboutRuntime
  BY <1>2 DEF QuietAboutRuntime, Cached, RuntimeSteps
<1> QED
  BY <1>1, <1>2

LEMMA SaveInv ==
  ASSUME IInv, NEW t \in Tasks, Save(t)
  PROVE  IInv'
<1>1. /\ request[t].step = "saving"
      /\ UNCHANGED <<owners, answer, rows, cache, writer, crossed>>
      /\ Ends(t, {"probing", "saving"})
  BY DEF Save, setup
<1>2. /\ request' = [u \in Tasks |-> request'[u]]
      /\ request'[t].step = "idle"
      /\ \A u \in Tasks \ {t} :
           request'[u].step = request[u].step /\ request'[u].about = request[u].about
  BY <1>1, EndsFacts
<1>3. owners # {}
  BY <1>1 DEF IInv, Claimed, SaveSteps
<1>4. stored' = [k \in Keys |-> stored'[k]]
  BY DEF Save, Saved, IInv, Functions
<1>5. Functions'
  BY <1>1, <1>2, <1>4 DEF IInv, Functions
<1>6. QuietAboutRuntime
  BY <1>1, <1>2 DEF QuietAboutRuntime, IInv, Cached, RuntimeSteps
<1>7. \A u \in Tasks : request'[u].step \in ClaimSteps =>
        request[u].step \in ClaimSteps /\ request'[u].about = request[u].about
  BY <1>2 DEF ClaimSteps
<1>8. \A u \in Tasks : request'[u].step \in ClaimSteps =>
        request'[u].about \in DOMAIN Claims /\ answer'[request'[u].about] = "pending"
  BY <1>1, <1>7 DEF IInv, Claimed
<1>9. Claimed'
  BY <1>1, <1>2, <1>3, <1>8, EndsKeepsApart DEF IInv, Claimed
<1> QED
  BY <1>5, <1>6, <1>9, QuietKeepsCached DEF IInv

-----------------------------------------------------------------------------
(* Runtime settings.                                                       *)

LEMMA FillInv ==
  ASSUME IInv, NEW t \in Tasks, Fill(t)
  PROVE  IInv'
<1>1. /\ request[t].step = "filling"
      /\ cache' = {request[t].about.loaded}
      /\ crossed' = (request[t].about.loaded # rows \/ writer # Nobody)
      /\ UNCHANGED <<owners, answer, stored, rows, writer>>
  BY DEF Fill, setup
<1>2. /\ request' = [u \in Tasks |-> request'[u]]
      /\ request'[t].step \in {"idle", "form"}
      /\ \A u \in Tasks \ {t} : request'[u] = request[u]
  <2>1. CASE request' = [request EXCEPT ![t] = Idle]
    BY <2>1 DEF IInv, Functions, Idle
  <2>2. CASE Goes(t, "form", request[t].about)
    BY <2>2, GoesFacts DEF IInv
  <2> QED
    BY <2>1, <2>2 DEF Fill
<1>3. Quiet
  BY <1>1, <1>2 DEF Quiet, ClaimSteps, SaveSteps
<1>4. Functions'
  BY <1>1, <1>2 DEF IInv, Functions
<1>5. t \in Here
  BY <1>1 DEF IInv, Cached, RuntimeSteps
<1>6. Cached'
  <2>1. \A u \in Tasks : request'[u].step \in RuntimeSteps => u \in Here'
    BY <1>2, <1>5 DEF IInv, Cached, Here
  <2>2. \A u \in Tasks : request'[u].step = "flushed" => writer' = u
    BY <1>1, <1>2 DEF IInv, Cached
  <2>3. writer' # Nobody => crossed'
    BY <1>1
  <2>4. CacheIsFresh'
    BY <1>1 DEF CacheIsFresh
  <2> QED
    BY <2>1, <2>2, <2>3, <2>4 DEF Cached
<1> QED
  BY <1>3, <1>4, <1>6, QuietKeepsClaimed DEF IInv

LEMMA FlushInv ==
  ASSUME IInv, NEW t \in Tasks, Flush(t)
  PROVE  IInv'
<1>1. /\ request[t].step = "writing" /\ writer = Nobody
      /\ writer' = t /\ cache' = {}
      /\ Goes(t, "flushed", request[t].about)
      /\ UNCHANGED <<owners, answer, stored>>
  BY DEF Flush, setup
<1>2. /\ request' = [u \in Tasks |-> request'[u]]
      /\ request'[t].step = "flushed"
      /\ \A u \in Tasks \ {t} : request'[u] = request[u]
  BY <1>1, GoesFacts DEF IInv
<1>3. Quiet
  BY <1>1, <1>2 DEF Quiet, ClaimSteps, SaveSteps
<1>4. Functions'
  BY <1>1, <1>2 DEF IInv, Functions
<1>5. t \in Here /\ t # Nobody
  BY <1>1, ConfigurationAssumption DEF IInv, Cached, RuntimeSteps, Nobody
<1>6. \A u \in Tasks : request[u].step # "flushed"
  BY <1>1, ConfigurationAssumption DEF IInv, Cached, Nobody
<1>7. Cached'
  BY <1>1, <1>2, <1>5, <1>6 DEF IInv, Cached, CacheIsFresh, Here
<1> QED
  BY <1>3, <1>4, <1>7, QuietKeepsClaimed DEF IInv

LEMMA CommitInv ==
  ASSUME IInv, NEW t \in Tasks, Commit(t)
  PROVE  IInv'
<1>1. /\ request[t].step = "flushed" /\ writer' = Nobody
      /\ UNCHANGED <<owners, answer, stored, cache, crossed>>
      /\ Ends(t, {"filling", "form", "writing"})
  BY DEF Commit, setup
<1>2. /\ request' = [u \in Tasks |-> request'[u]]
      /\ request'[t].step = "idle"
      /\ \A u \in Tasks \ {t} :
           request'[u].step = request[u].step /\ request'[u].about = request[u].about
  BY <1>1, EndsFacts
<1>3. Quiet
  BY <1>1, <1>2, LeavesQuiet DEF IInv
<1>4. Functions'
  BY <1>1, <1>2 DEF IInv, Functions
<1>5. cache = {} \/ crossed
  BY <1>1, ConfigurationAssumption DEF IInv, Cached, Nobody
<1>6. \A u \in Tasks : request[u].step = "flushed" => u = t
  BY <1>1 DEF IInv, Cached
<1>7. Cached'
  BY <1>1, <1>2, <1>5, <1>6 DEF IInv, Cached, CacheIsFresh, Here, RuntimeSteps
<1> QED
  BY <1>3, <1>4, <1>7, QuietKeepsClaimed DEF IInv

-----------------------------------------------------------------------------
(* Failures.                                                               *)

LEMMA IdleInv ==
  ASSUME IInv, NEW t \in Tasks, request[t].step = "refreshing",
         request' = [request EXCEPT ![t] = Idle],
         UNCHANGED <<owners, answer, stored, rows, cache, writer, crossed>>
  PROVE  IInv'
<1>1. /\ request' = [u \in Tasks |-> request'[u]]
      /\ request'[t].step = "idle"
      /\ \A u \in Tasks \ {t} : request'[u] = request[u]
  BY DEF IInv, Functions, Idle
<1>2. Functions'
  BY <1>1 DEF IInv, Functions
<1>3. Quiet /\ QuietAboutRuntime
  BY <1>1, LeavesQuiet DEF IInv
<1> QED
  BY <1>2, <1>3, QuietKeepsClaimed, QuietKeepsCached DEF IInv

LEMMA FailsInv ==
  ASSUME IInv, NEW t \in Tasks, Fails(t)
  PROVE  IInv'
<1>1. /\ request' = [request EXCEPT ![t] = Idle]
      /\ writer' = IF writer = t THEN Nobody ELSE writer
      /\ UNCHANGED <<owners, answer, stored, rows, cache, crossed>>
  BY DEF Fails
<1>2. /\ request' = [u \in Tasks |-> request'[u]]
      /\ request'[t].step = "idle"
      /\ \A u \in Tasks \ {t} : request'[u] = request[u]
  BY <1>1 DEF IInv, Functions, Idle
<1>3. Quiet
  BY <1>1, <1>2 DEF Quiet, ClaimSteps, SaveSteps
<1>4. Functions'
  BY <1>1, <1>2 DEF IInv, Functions
<1>5. Cached'
  BY <1>1, <1>2 DEF IInv, Cached, CacheIsFresh, Here, RuntimeSteps
<1> QED
  BY <1>3, <1>4, <1>5, QuietKeepsClaimed DEF IInv

LEMMA RestartInv ==
  ASSUME IInv, Restart
  PROVE  IInv'
<1>1. /\ request' = [u \in Tasks |-> IF u \in Here THEN Idle ELSE request[u]]
      /\ cache' = {} /\ writer' = Nobody
      /\ UNCHANGED <<owners, answer, stored>>
  BY DEF Restart
<1>2. \A u \in Tasks : request'[u].step = "idle" \/ (request'[u] = request[u] /\ u \notin Here)
  BY <1>1 DEF Idle
<1>3. Quiet
  BY <1>1, <1>2 DEF Quiet, ClaimSteps, SaveSteps
<1>4. Functions'
  BY <1>1 DEF IInv, Functions
<1>5. Cached'
  BY <1>1, <1>2 DEF IInv, Cached, CacheIsFresh, Here, RuntimeSteps
<1> QED
  BY <1>3, <1>4, <1>5, QuietKeepsClaimed DEF IInv

-----------------------------------------------------------------------------
LEMMA StepInv == IInv /\ [Next]_vars => IInv'
<1> SUFFICES ASSUME IInv, [Next]_vars PROVE IInv'
  OBVIOUS
<1>1. CASE UNCHANGED vars
  <2>1. UNCHANGED <<owners, answer, stored, rows, cache, writer, crossed, request>>
    BY <1>1 DEF vars, setup, runtime
  <2> QED
    BY <2>1 DEF IInv, Functions, Claimed, Cached, CacheIsFresh, Here
<1>2. ASSUME NEW t \in Tasks, Claim(t) PROVE IInv'
  BY <1>2, ClaimInv
<1>3. ASSUME NEW t \in Tasks, Enter(t) PROVE IInv'
  BY <1>3, EnterInv
<1>4. ASSUME NEW t \in Tasks, Insert(t) PROVE IInv'
  BY <1>4, InsertInv
<1>5. ASSUME NEW t \in Tasks, SubmitApi(t) PROVE IInv'
  BY <1>5, AsksInv DEF SubmitApi, setup, runtime, ClaimSteps
<1>6. ASSUME NEW t \in Tasks, ReadStored(t) PROVE IInv'
  BY <1>6, GoesInv DEF ReadStored, setup, runtime, ClaimSteps, SaveSteps, RuntimeSteps
<1>7. ASSUME NEW t \in Tasks, SubmitForm(t) PROVE IInv'
  BY <1>7, AsksInv DEF SubmitForm, setup, runtime, ClaimSteps
<1>8. ASSUME NEW t \in Tasks, Save(t) PROVE IInv'
  BY <1>8, SaveInv
<1>9. ASSUME NEW t \in Tasks, OpenRuntime(t) PROVE IInv'
  BY <1>9, AsksInv DEF OpenRuntime, setup, runtime, ClaimSteps
<1>10. ASSUME NEW t \in Tasks, Select(t) PROVE IInv'
  BY <1>10, GoesInv DEF Select, setup, runtime, ClaimSteps, SaveSteps, RuntimeSteps
<1>11. ASSUME NEW t \in Tasks, Fill(t) PROVE IInv'
  BY <1>11, FillInv
<1>12. ASSUME NEW t \in Tasks, ReadRows(t) PROVE IInv'
  BY <1>12, GoesInv DEF ReadRows, setup, runtime, ClaimSteps, SaveSteps, RuntimeSteps
<1>13. ASSUME NEW t \in Tasks, Flush(t) PROVE IInv'
  BY <1>13, FlushInv
<1>14. ASSUME NEW t \in Tasks, Commit(t) PROVE IInv'
  BY <1>14, CommitInv
<1>15. ASSUME NEW t \in Tasks, RefreshOne(t) PROVE IInv'
  BY <1>15, AsksInv DEF RefreshOne, setup, runtime, ClaimSteps
<1>16. ASSUME NEW t \in Tasks, StoreOne(t) PROVE IInv'
  BY <1>16, IdleInv DEF StoreOne, setup, runtime
<1>17. ASSUME NEW t \in Tasks, Fails(t) PROVE IInv'
  BY <1>17, FailsInv
<1>18. ASSUME RefreshAll \/ StoreAll PROVE IInv'
  <2>1. UNCHANGED <<owners, answer, stored, rows, cache, writer, crossed, request>>
    BY <1>18 DEF RefreshAll, StoreAll, setup, runtime
  <2> QED
    BY <2>1 DEF IInv, Functions, Claimed, Cached, CacheIsFresh, Here
<1>19. ASSUME Restart PROVE IInv'
  BY <1>19, RestartInv
<1> QED
  BY <1>1, <1>2, <1>3, <1>4, <1>5, <1>6, <1>7, <1>8, <1>9, <1>10, <1>11, <1>12, <1>13,
     <1>14, <1>15, <1>16, <1>17, <1>18, <1>19 DEF Next

LEMMA Invariance == Spec => []IInv
<1>1. Init => IInv
  BY InitInv
<1>2. IInv /\ [Next]_vars => IInv'
  BY StepInv
<1> QED
  BY <1>1, <1>2, PTL DEF Spec

\* Of all the claims that race, one becomes the owner, its request is told so and
\* no other, and nothing of the others is stored (setup_owner).
THEOREM SingleOwner == Spec => []OneOwner
<1>1. IInv => OneOwner
  <2> SUFFICES ASSUME IInv PROVE OneOwner
    OBVIOUS
  <2>1. CASE owners = {}
    <3>1. Cardinality(owners) = 0
      BY <2>1, FS_EmptySet
    <3>2. Cardinality(owners) <= 1
      BY <3>1
    <3> QED
      BY <3>2 DEF IInv, Claimed, OneOwner
  <2>2. CASE owners # {}
    <3>1. PICK c : owners = {c}
      BY <2>2 DEF IInv, Claimed
    <3>2. Cardinality(owners) = 1
      BY <3>1, FS_Singleton
    <3>3. Cardinality(owners) <= 1
      BY <3>2
    <3> QED
      BY <3>3 DEF IInv, Claimed, OneOwner
  <2> QED
    BY <2>1, <2>2
<1> QED
  BY <1>1, Invariance, PTL

\* The runtime cache holds what is committed, unless a load that a save crossed has
\* filled it (_load_runtime, save_runtime_settings).
THEOREM FreshCache == Spec => []CacheIsFresh
<1>1. IInv => CacheIsFresh
  BY DEF IInv, Cached
<1> QED
  BY <1>1, Invariance, PTL

-----------------------------------------------------------------------------
(***************************************************************************)
(* A save of runtime settings keeps what other pages have saved, and a     *)
(* save of provider settings leaves a pair probed together.                *)
(***************************************************************************)

FormSteps == {"filling", "form"}
WriteSteps == {"writing", "flushed"}
RowSteps == FormSteps \cup WriteSteps

\* What a request holds that no save has passed is what is stored: the rows as it
\* has loaded them, or the values made from them for the fields of other pages.
HoldsRows(t) ==
  ~request[t].stale =>
    /\ request[t].step \in FormSteps => request[t].about.loaded = rows
    /\ request[t].step \in WriteSteps =>
         \A f \in Fields \ {request[t].about.section, "auto"} :
           request[t].about.values[f] = Runtime(rows)[f]

\* The probes that let it through were of what is stored.
HoldsPair(t) ==
  ~request[t].stale =>
    /\ request[t].step = "probing" => Passes(stored, request[t].about.sub)
    /\ request[t].step = "saving" /\ request[t].about.api =>
         request[t].about.view = stored /\ Passes(stored, request[t].about.sub)

RowsHeld == \A t \in Tasks : HoldsRows(t)
PairsHeld == \A t \in Tasks : HoldsPair(t)

SavesInv == IInv /\ RowsHeld /\ PairsHeld

-----------------------------------------------------------------------------
\* A request is as it was, but for what it now knows to be stale.
Stays(u) ==
  /\ request'[u].step = request[u].step /\ request'[u].about = request[u].about
  /\ request[u].stale => request'[u].stale

\* Every other request stays, and t comes to one of the given steps, or goes.
Moves(t, steps) ==
  /\ \A u \in Tasks \ {t} : Stays(u) \/ request'[u].step = "idle"
  /\ request'[t].step \in steps \cup {"idle"}

LEMMA RowsStay ==
  ASSUME NEW u \in Tasks, HoldsRows(u), Stays(u), UNCHANGED rows
  PROVE  HoldsRows(u)'
BY DEF HoldsRows, Stays, Runtime

LEMMA PairStays ==
  ASSUME NEW u \in Tasks, HoldsPair(u), Stays(u), UNCHANGED <<env, stored>>
  PROVE  HoldsPair(u)'
<1>1. \A sub : Passes(stored, sub)' <=> Passes(stored, sub)
  BY DEF Passes, Changed, Tried, Resolve
<1> QED
  BY <1>1 DEF HoldsPair, Stays

\* A request that reads or writes no rows leaves them all held.
LEMMA MovesKeepRows ==
  ASSUME RowsHeld, NEW t \in Tasks, NEW steps, Moves(t, steps), UNCHANGED rows,
         steps \cap RowSteps = {}
  PROVE  RowsHeld'
<1> SUFFICES ASSUME NEW u \in Tasks PROVE HoldsRows(u)'
  BY DEF RowsHeld
<1>1. CASE Stays(u)
  BY <1>1, RowsStay DEF RowsHeld
<1>2. CASE request'[u].step \in steps \cup {"idle"}
  BY <1>2 DEF HoldsRows, RowSteps, FormSteps, WriteSteps
<1> QED
  BY <1>1, <1>2 DEF Moves

\* Nor does one that saves no provider settings touch what others hold of those.
LEMMA MovesKeepPairs ==
  ASSUME PairsHeld, NEW t \in Tasks, NEW steps, Moves(t, steps), UNCHANGED <<env, stored>>,
         steps \cap SaveSteps = {}
  PROVE  PairsHeld'
<1> SUFFICES ASSUME NEW u \in Tasks PROVE HoldsPair(u)'
  BY DEF PairsHeld
<1>1. CASE Stays(u)
  BY <1>1, PairStays DEF PairsHeld
<1>2. CASE request'[u].step \in steps \cup {"idle"}
  BY <1>2 DEF HoldsPair, SaveSteps
<1> QED
  BY <1>1, <1>2 DEF Moves

\* Who begins, goes on or ends moves alone.
LEMMA BeginMoves ==
  ASSUME Functions, NEW t \in Tasks, NEW step, NEW about, NEW stale, Begin(t, step, about, stale)
  PROVE  /\ Moves(t, {step}) /\ \A u \in Tasks \ {t} : Stays(u)
         /\ request'[t].step = step /\ request'[t].about = about /\ request'[t].stale = stale
BY DEF Functions, Begin, Moves, Stays

LEMMA GoesMoves ==
  ASSUME Functions, NEW t \in Tasks, NEW step, NEW about, Goes(t, step, about)
  PROVE  /\ Moves(t, {step}) /\ \A u \in Tasks \ {t} : Stays(u)
         /\ request'[t].step = step /\ request'[t].about = about
         /\ request'[t].stale = request[t].stale
BY DEF Functions, Goes, Moves, Stays

LEMMA EndsMoves ==
  ASSUME NEW t \in Tasks, NEW steps, Ends(t, steps)
  PROVE  /\ Moves(t, {}) /\ \A u \in Tasks \ {t} : Stays(u)
         /\ \A u \in Tasks \ {t} : request[u].step \in steps => request'[u].stale
BY DEF Ends, Idle, Moves, Stays

LEMMA IdleMoves ==
  ASSUME Functions, NEW t \in Tasks, request' = [request EXCEPT ![t] = Idle]
  PROVE  Moves(t, {}) /\ \A u \in Tasks \ {t} : Stays(u)
BY DEF Functions, Idle, Moves, Stays

-----------------------------------------------------------------------------
(* Rows of runtime settings.                                               *)

LEMMA OpenRuntimeKeeps ==
  ASSUME SavesInv, NEW t \in Tasks, OpenRuntime(t)
  PROVE  RowsHeld' /\ PairsHeld'
<1>1. UNCHANGED <<env, stored, rows>>
  BY DEF OpenRuntime, runtime
<1>2. PICK form \in Submitted \cup {NotSaving} :
        IF cache = {} THEN Asks(t, "loading", [form |-> form], FALSE)
        ELSE form # NotSaving /\ \E loaded \in cache :
               Asks(t, "form", [form |-> form, loaded |-> loaded], loaded # rows)
  BY DEF OpenRuntime
<1>3. CASE cache = {}
  <2>1. Begin(t, "loading", [form |-> form], FALSE)
    BY <1>2, <1>3 DEF Asks
  <2>2. Moves(t, {"loading"})
    BY <2>1, BeginMoves DEF SavesInv, IInv
  <2> QED
    BY <1>1, <2>2, MovesKeepRows, MovesKeepPairs
       DEF SavesInv, RowSteps, FormSteps, WriteSteps, SaveSteps
<1>4. CASE cache # {}
  <2>1. PICK loaded, about, stale :
          /\ about.loaded = loaded /\ stale = (loaded # rows)
          /\ Begin(t, "form", about, stale)
    BY <1>2, <1>4 DEF Asks
  <2>2. /\ Moves(t, {"form"}) /\ \A u \in Tasks \ {t} : Stays(u)
        /\ request'[t].step = "form" /\ request'[t].about = about
        /\ request'[t].stale = stale
    BY <2>1, BeginMoves DEF SavesInv, IInv
  <2>3. request'[t].about.loaded = loaded /\ request'[t].stale = (loaded # rows)
    BY <2>1, <2>2
  <2>4. HoldsRows(t)'
    BY <1>1, <2>2, <2>3 DEF HoldsRows, WriteSteps
  <2>5. RowsHeld'
    BY <1>1, <2>2, <2>4, RowsStay DEF SavesInv, RowsHeld
  <2> QED
    BY <1>1, <2>2, <2>5, MovesKeepPairs DEF SavesInv, SaveSteps
<1> QED
  BY <1>3, <1>4

LEMMA SelectKeeps ==
  ASSUME SavesInv, NEW t \in Tasks, Select(t)
  PROVE  RowsHeld' /\ PairsHeld'
<1>1. PICK about :
        /\ about.loaded = rows /\ Goes(t, "filling", about)
        /\ UNCHANGED <<env, stored, rows>>
  BY DEF Select, runtime
<1>2. /\ Moves(t, {"filling"}) /\ \A u \in Tasks \ {t} : Stays(u)
      /\ request'[t].step = "filling" /\ request'[t].about.loaded = rows
  BY <1>1, GoesMoves DEF SavesInv, IInv
<1>3. HoldsRows(t)'
  BY <1>1, <1>2 DEF HoldsRows, WriteSteps
<1>4. RowsHeld'
  BY <1>1, <1>2, <1>3, RowsStay DEF SavesInv, RowsHeld
<1> QED
  BY <1>1, <1>2, <1>4, MovesKeepPairs DEF SavesInv, SaveSteps

LEMMA FillKeeps ==
  ASSUME SavesInv, NEW t \in Tasks, Fill(t)
  PROVE  RowsHeld' /\ PairsHeld'
<1>1. UNCHANGED <<env, stored, rows>> /\ request[t].step = "filling"
  BY DEF Fill
<1>2. CASE request' = [request EXCEPT ![t] = Idle]
  <2>1. Moves(t, {})
    BY <1>2, IdleMoves DEF SavesInv, IInv
  <2> QED
    BY <1>1, <2>1, MovesKeepRows, MovesKeepPairs DEF SavesInv
<1>3. CASE Goes(t, "form", request[t].about)
  <2>1. /\ Moves(t, {"form"}) /\ \A u \in Tasks \ {t} : Stays(u)
        /\ request'[t].step = "form" /\ request'[t].about = request[t].about
        /\ request'[t].stale = request[t].stale
    BY <1>3, GoesMoves DEF SavesInv, IInv
  <2>2. HoldsRows(t)'
    BY <1>1, <2>1 DEF SavesInv, RowsHeld, HoldsRows, FormSteps, WriteSteps
  <2>3. RowsHeld'
    BY <1>1, <2>1, <2>2, RowsStay DEF SavesInv, RowsHeld
  <2> QED
    BY <1>1, <2>1, <2>3, MovesKeepPairs DEF SavesInv, SaveSteps
<1> QED
  BY <1>2, <1>3 DEF Fill

LEMMA ReadRowsKeeps ==
  ASSUME SavesInv, NEW t \in Tasks, ReadRows(t)
  PROVE  RowsHeld' /\ PairsHeld'
<1> DEFINE form == request[t].about.form
           loaded == request[t].about.loaded
<1>1. PICK about :
        /\ about.values = Payload(form, loaded) /\ about.section = form.section
        /\ Goes(t, "writing", about)
        /\ request[t].step = "form" /\ UNCHANGED <<env, stored, rows>>
  BY DEF ReadRows, runtime
<1>2. /\ Moves(t, {"writing"}) /\ \A u \in Tasks \ {t} : Stays(u)
      /\ request'[t].step = "writing" /\ request'[t].stale = request[t].stale
      /\ request'[t].about.values = Payload(form, loaded)
      /\ request'[t].about.section = form.section
  BY <1>1, GoesMoves DEF SavesInv, IInv
<1>3. ~request[t].stale => loaded = rows
  BY <1>1 DEF SavesInv, RowsHeld, HoldsRows, FormSteps
<1>4. \A f \in Fields \ {form.section, "auto"} : Payload(form, loaded)[f] = Runtime(loaded)[f]
  BY DEF Payload
<1>5. \A f \in Fields : Runtime(rows)'[f] = Runtime(rows)[f]
  BY <1>1 DEF Runtime
<1>6. HoldsRows(t)'
  BY <1>2, <1>3, <1>4, <1>5 DEF HoldsRows, FormSteps
<1>7. RowsHeld'
  BY <1>1, <1>2, <1>6, RowsStay DEF SavesInv, RowsHeld
<1> QED
  BY <1>1, <1>2, <1>7, MovesKeepPairs DEF SavesInv, SaveSteps

LEMMA FlushKeeps ==
  ASSUME SavesInv, NEW t \in Tasks, Flush(t)
  PROVE  RowsHeld' /\ PairsHeld'
<1>1. /\ UNCHANGED <<env, stored, rows>> /\ request[t].step = "writing"
      /\ Goes(t, "flushed", request[t].about)
  BY DEF Flush
<1>2. /\ Moves(t, {"flushed"}) /\ \A u \in Tasks \ {t} : Stays(u)
      /\ request'[t].step = "flushed" /\ request'[t].about = request[t].about
      /\ request'[t].stale = request[t].stale
  BY <1>1, GoesMoves DEF SavesInv, IInv
<1>3. Runtime(rows)' = Runtime(rows)
  BY <1>1 DEF Runtime
<1>4. HoldsRows(t)'
  BY <1>1, <1>2, <1>3 DEF SavesInv, RowsHeld, HoldsRows, FormSteps, WriteSteps
<1>5. RowsHeld'
  BY <1>1, <1>2, <1>4, RowsStay DEF SavesInv, RowsHeld
<1> QED
  BY <1>1, <1>2, <1>5, MovesKeepPairs DEF SavesInv, SaveSteps

\* Whoever holds rows when they change knows it: nobody else has flushed.
LEMMA CommitKeeps ==
  ASSUME SavesInv, NEW t \in Tasks, Commit(t)
  PROVE  RowsHeld' /\ PairsHeld'
<1>1. /\ UNCHANGED <<env, stored>> /\ request[t].step = "flushed"
      /\ Ends(t, {"filling", "form", "writing"})
  BY DEF Commit
<1>2. /\ Moves(t, {}) /\ \A u \in Tasks \ {t} : Stays(u)
      /\ \A u \in Tasks \ {t} :
           request[u].step \in {"filling", "form", "writing"} => request'[u].stale
  BY <1>1, EndsMoves
<1>3. \A u \in Tasks \ {t} : request[u].step # "flushed"
  BY <1>1 DEF SavesInv, IInv, Cached
<1>4. RowsHeld'
  <2> SUFFICES ASSUME NEW u \in Tasks, ~request'[u].stale
               PROVE  request'[u].step \notin RowSteps
    BY DEF RowsHeld, HoldsRows, RowSteps
  <2>1. CASE u = t
    BY <1>2, <2>1 DEF Moves, RowSteps, FormSteps, WriteSteps
  <2>2. CASE u # t
    BY <1>2, <1>3, <2>2 DEF Stays, RowSteps, FormSteps, WriteSteps
  <2> QED
    BY <2>1, <2>2
<1> QED
  BY <1>1, <1>2, <1>4, MovesKeepPairs DEF SavesInv

-----------------------------------------------------------------------------
(* Pairs of provider settings.                                             *)

\* Before there is an owner nobody saves provider settings.
LEMMA InsertKeeps ==
  ASSUME SavesInv, NEW t \in Tasks, Insert(t)
  PROVE  RowsHeld' /\ PairsHeld'
<1>1. UNCHANGED <<env, rows>> /\ Ends(t, {})
  BY DEF Insert, Refuse, runtime
<1>2. Moves(t, {}) /\ \A u \in Tasks \ {t} : Stays(u)
  BY <1>1, EndsMoves
<1>3. RowsHeld'
  BY <1>1, <1>2, MovesKeepRows DEF SavesInv
<1>4. CASE UNCHANGED stored
  BY <1>1, <1>2, <1>3, <1>4, MovesKeepPairs DEF SavesInv
<1>5. CASE owners = {}
  <2>1. \A u \in Tasks : request[u].step \notin SaveSteps
    BY <1>5 DEF SavesInv, IInv, Claimed
  <2>2. \A u \in Tasks : request'[u].step \notin SaveSteps
    BY <1>2, <2>1 DEF Moves, Stays, SaveSteps
  <2> QED
    BY <1>3, <2>2 DEF PairsHeld, HoldsPair, SaveSteps
<1> QED
  BY <1>4, <1>5 DEF Insert, Refuse

LEMMA SubmitApiKeeps ==
  ASSUME SavesInv, NEW t \in Tasks, SubmitApi(t)
  PROVE  RowsHeld' /\ PairsHeld'
<1>0. PICK sub \in Submissions :
        /\ Passes(stored, sub)
        /\ \E about : about.sub = sub /\ Begin(t, "probing", about, FALSE)
  BY DEF SubmitApi, Asks
<1>1. PICK about :
        /\ Passes(stored, sub)
        /\ about.sub = sub /\ Begin(t, "probing", about, FALSE)
  BY <1>0
<1>2. UNCHANGED <<env, stored, rows>>
  BY DEF SubmitApi, runtime
<1>3. /\ Moves(t, {"probing"}) /\ \A u \in Tasks \ {t} : Stays(u)
      /\ request'[t].step = "probing" /\ request'[t].about.sub = sub
  BY <1>1, BeginMoves DEF SavesInv, IInv
<1>4. Passes(stored, sub)'
  BY <1>1, <1>2 DEF Passes, Changed, Tried, Resolve
<1>5. HoldsPair(t)'
  BY <1>3, <1>4 DEF HoldsPair
<1>6. PairsHeld'
  BY <1>2, <1>3, <1>5, PairStays DEF SavesInv, PairsHeld
<1> QED
  BY <1>2, <1>3, <1>6, MovesKeepRows DEF SavesInv, RowSteps, FormSteps, WriteSteps

LEMMA ReadStoredKeeps ==
  ASSUME SavesInv, NEW t \in Tasks, ReadStored(t)
  PROVE  RowsHeld' /\ PairsHeld'
<1> DEFINE sub == request[t].about.sub
<1>1. PICK about :
        /\ about.sub = sub /\ about.view = stored /\ Goes(t, "saving", about)
        /\ request[t].step = "probing" /\ UNCHANGED <<env, stored, rows>>
  BY DEF ReadStored, runtime
<1>2. /\ Moves(t, {"saving"}) /\ \A u \in Tasks \ {t} : Stays(u)
      /\ request'[t].step = "saving" /\ request'[t].stale = request[t].stale
      /\ request'[t].about.sub = sub /\ request'[t].about.view = stored
  BY <1>1, GoesMoves DEF SavesInv, IInv
<1>3. ~request[t].stale => Passes(stored, sub)
  BY <1>1 DEF SavesInv, PairsHeld, HoldsPair
<1>4. \A s : Passes(stored, s)' <=> Passes(stored, s)
  BY <1>1 DEF Passes, Changed, Tried, Resolve
<1>5. HoldsPair(t)'
  BY <1>1, <1>2, <1>3, <1>4 DEF HoldsPair
<1>6. PairsHeld'
  BY <1>1, <1>2, <1>5, PairStays DEF SavesInv, PairsHeld
<1> QED
  BY <1>1, <1>2, <1>6, MovesKeepRows DEF SavesInv, RowSteps, FormSteps, WriteSteps

\* The page probes nothing, and nothing is claimed of what it saves.
LEMMA SubmitFormKeeps ==
  ASSUME SavesInv, NEW t \in Tasks, SubmitForm(t)
  PROVE  RowsHeld' /\ PairsHeld'
<1>1. PICK about : about.api = FALSE /\ Begin(t, "saving", about, FALSE)
  BY DEF SubmitForm, Asks
<1>2. UNCHANGED <<env, stored, rows>>
  BY DEF SubmitForm, runtime
<1>3. /\ Moves(t, {"saving"}) /\ \A u \in Tasks \ {t} : Stays(u)
      /\ request'[t].step = "saving" /\ request'[t].about.api = FALSE
  BY <1>1, BeginMoves DEF SavesInv, IInv
<1>4. HoldsPair(t)'
  BY <1>3 DEF HoldsPair
<1>5. PairsHeld'
  BY <1>2, <1>3, <1>4, PairStays DEF SavesInv, PairsHeld
<1> QED
  BY <1>2, <1>3, <1>5, MovesKeepRows DEF SavesInv, RowSteps, FormSteps, WriteSteps

LEMMA SaveKeeps ==
  ASSUME SavesInv, NEW t \in Tasks, Save(t)
  PROVE  RowsHeld' /\ PairsHeld'
<1>1. UNCHANGED rows /\ Ends(t, {"probing", "saving"})
  BY DEF Save
<1>2. /\ Moves(t, {}) /\ \A u \in Tasks \ {t} : Stays(u)
      /\ \A u \in Tasks \ {t} : request[u].step \in {"probing", "saving"} => request'[u].stale
  BY <1>1, EndsMoves
<1>3. PairsHeld'
  <2> SUFFICES ASSUME NEW u \in Tasks, ~request'[u].stale
               PROVE  request'[u].step \notin {"probing", "saving"}
    BY DEF PairsHeld, HoldsPair
  <2>1. CASE u = t
    BY <1>2, <2>1 DEF Moves
  <2>2. CASE u # t
    BY <1>2, <2>2 DEF Stays
  <2> QED
    BY <2>1, <2>2
<1> QED
  BY <1>1, <1>2, <1>3, MovesKeepRows DEF SavesInv

-----------------------------------------------------------------------------
(* The other steps.                                                        *)

LEMMA RestKeeps ==
  ASSUME SavesInv, NEW t \in Tasks,
         Claim(t) \/ Enter(t) \/ RefreshOne(t) \/ StoreOne(t) \/ Fails(t)
  PROVE  RowsHeld' /\ PairsHeld'
<1>1. UNCHANGED <<env, stored, rows>>
  BY DEF Claim, Enter, Refuse, RefreshOne, StoreOne, Fails, runtime
<1>2. Functions
  BY DEF SavesInv, IInv
<1>3. Moves(t, {"claim", "claiming", "refreshing"})
  <2>1. CASE Claim(t)
    <3>1. PICK c : Begin(t, "claim", c, FALSE)
      BY <2>1 DEF Claim
    <3> QED
      BY <1>2, <3>1, BeginMoves DEF Moves
  <2>2. CASE Enter(t)
    <3>1. Ends(t, {}) \/ Goes(t, "claiming", request[t].about)
      BY <2>2 DEF Enter, Refuse
    <3> QED
      BY <1>2, <3>1, EndsMoves, GoesMoves DEF Moves
  <2>3. CASE RefreshOne(t)
    <3>1. PICK about : Begin(t, "refreshing", about, FALSE)
      BY <2>3 DEF RefreshOne, Asks
    <3> QED
      BY <1>2, <3>1, BeginMoves DEF Moves
  <2>4. CASE StoreOne(t) \/ Fails(t)
    <3>1. request' = [request EXCEPT ![t] = Idle]
      BY <2>4 DEF StoreOne, Fails
    <3> QED
      BY <1>2, <3>1, IdleMoves DEF Moves
  <2> QED
    BY <2>1, <2>2, <2>3, <2>4
<1> QED
  BY <1>1, <1>3, MovesKeepRows, MovesKeepPairs
     DEF SavesInv, RowSteps, FormSteps, WriteSteps, SaveSteps

\* Nobody moves, or all of this process go.
LEMMA StillKeeps ==
  ASSUME SavesInv, UNCHANGED <<env, stored, rows>>,
         \A u \in Tasks : Stays(u) \/ request'[u].step = "idle"
  PROVE  RowsHeld' /\ PairsHeld'
<1>1. ASSUME NEW u \in Tasks PROVE HoldsRows(u)' /\ HoldsPair(u)'
  <2>1. CASE Stays(u)
    BY <2>1, RowsStay, PairStays DEF SavesInv, RowsHeld, PairsHeld
  <2>2. CASE request'[u].step = "idle"
    BY <2>2 DEF HoldsRows, HoldsPair, FormSteps, WriteSteps
  <2> QED
    BY <2>1, <2>2
<1> QED
  BY <1>1 DEF RowsHeld, PairsHeld

LEMMA SavesInitInv == Init => SavesInv
<1> SUFFICES ASSUME Init PROVE SavesInv
  OBVIOUS
<1>1. \A t \in Tasks : request[t].step = "idle"
  BY DEF Init, Idle
<1>2. RowsHeld /\ PairsHeld
  BY <1>1 DEF RowsHeld, HoldsRows, PairsHeld, HoldsPair, FormSteps, WriteSteps
<1> QED
  BY <1>2, InitInv DEF SavesInv

LEMMA SavesStepInv == SavesInv /\ [Next]_vars => SavesInv'
<1> SUFFICES ASSUME SavesInv, [Next]_vars PROVE SavesInv'
  OBVIOUS
<1>1. IInv'
  BY StepInv DEF SavesInv
<1>2. ASSUME NEW t \in Tasks,
             OpenRuntime(t) \/ Select(t) \/ Fill(t) \/ ReadRows(t) \/ Flush(t) \/ Commit(t)
      PROVE  RowsHeld' /\ PairsHeld'
  BY <1>2, OpenRuntimeKeeps, SelectKeeps, FillKeeps, ReadRowsKeeps, FlushKeeps, CommitKeeps
<1>3. ASSUME NEW t \in Tasks,
             Insert(t) \/ SubmitApi(t) \/ ReadStored(t) \/ SubmitForm(t) \/ Save(t)
      PROVE  RowsHeld' /\ PairsHeld'
  BY <1>3, InsertKeeps, SubmitApiKeeps, ReadStoredKeeps, SubmitFormKeeps, SaveKeeps
<1>4. ASSUME NEW t \in Tasks,
             Claim(t) \/ Enter(t) \/ RefreshOne(t) \/ StoreOne(t) \/ Fails(t)
      PROVE  RowsHeld' /\ PairsHeld'
  BY <1>4, RestKeeps
<1>5. CASE UNCHANGED vars \/ RefreshAll \/ StoreAll \/ Restart
  <2>1. UNCHANGED <<env, stored, rows>>
    BY <1>5 DEF vars, RefreshAll, StoreAll, Restart, runtime
  <2>2. \A u \in Tasks : Stays(u) \/ request'[u].step = "idle"
    BY <1>5 DEF vars, RefreshAll, StoreAll, Restart, Stays, Idle
  <2> QED
    BY <1>1, <2>1, <2>2, StillKeeps DEF SavesInv
<1> QED
  BY <1>1, <1>2, <1>3, <1>4, <1>5 DEF Next, SavesInv

-----------------------------------------------------------------------------
\* A commit of values that nothing has passed changes the fields of its own page
\* only (save_runtime_settings).
THEOREM OtherPagesAreKept == Spec => SavesKeepTheRest
<1>1. SavesInv /\ [Next]_vars =>
        [\A t \in Tasks : Commit(t) /\ ~request[t].stale =>
           \A f \in Fields \ {request[t].about.section, "auto"} :
             Runtime(rows')[f] = Runtime(rows)[f]]_rows
  <2> SUFFICES ASSUME SavesInv, NEW t \in Tasks, Commit(t), ~request[t].stale,
                      NEW f \in Fields \ {request[t].about.section, "auto"}
               PROVE  Runtime(rows')[f] = Runtime(rows)[f]
    OBVIOUS
  <2> DEFINE r == request[t].about
  <2>1. /\ request[t].step = "flushed"
        /\ rows'[f] = IF r.values[f] = r.view[f] THEN rows[f] ELSE r.values[f]
    BY DEF Commit
  <2>2. r.values[f] = Runtime(rows)[f]
    BY <2>1 DEF SavesInv, RowsHeld, HoldsRows, WriteSteps
  <2>3. CASE rows'[f] = rows[f]
    BY <2>3 DEF Runtime
  <2>4. CASE rows'[f] = Runtime(rows)[f]
    BY <2>4 DEF Runtime, Missing, Off
  <2> QED
    BY <2>1, <2>2, <2>3, <2>4
<1> QED
  BY <1>1, SavesInitInv, SavesStepInv, PTL DEF Spec, SavesKeepTheRest

\* What such a save leaves is the pair it was let through with.
LEMMA SavedIsTried ==
  ASSUME NEW sub, stored = [k \in Keys |-> stored[k]],
         \A k \in Keys : env[k] # "" => sub[k] = Unset,
         UNCHANGED env, stored' = Saved(stored, sub)
  PROVE  /\ Resolve(stored') = Tried(stored, sub)
         /\ Changed(stored, sub) = {} => stored' = stored
<1>1. \A k \in Keys : stored'[k] = IF k \in Written(sub) THEN sub[k] ELSE stored[k]
  BY DEF Saved
<1>2. \A k \in Keys : k \in Written(sub) <=> sub[k] # Unset /\ ~(k = "key" /\ sub[k] = "")
  BY DEF Written
<1>3. \A k \in Keys : k \in Written(sub) => env[k] = ""
  BY DEF Written
<1>4. Resolve(stored') = Tried(stored, sub)
  BY <1>1, <1>2, <1>3 DEF Resolve, Tried
<1>5. ASSUME Changed(stored, sub) = {} PROVE stored' = stored
  <2>1. \A k \in Keys : k \in Written(sub) => sub[k] = stored[k]
    BY <1>2, <1>3, <1>5 DEF Changed, Resolve
  <2>2. \A k \in Keys : stored'[k] = stored[k]
    BY <1>1, <2>1
  <2>3. stored' = [k \in Keys |-> stored'[k]]
    BY DEF Saved
  <2> QED
    BY <2>2, <2>3
<1> QED
  BY <1>4, <1>5

\* An API save that nothing has passed leaves a pair that was probed together
\* (_backstop, save_settings).
THEOREM PairsAreProbed == Spec => ProbedTogether
<1> DEFINE Probed ==
      \A t \in Tasks :
        /\ request[t].step = "saving" /\ request'[t] = Idle
        /\ request[t].about.api /\ ~request[t].stale
        /\ \A k \in Keys : env[k] # "" => request[t].about.sub[k] = Unset
        => Status(Resolve(stored')) = "available"
<1>1. SavesInv /\ [Next]_vars => [Probed]_stored
  <2> SUFFICES ASSUME SavesInv, [Next]_vars, stored' # stored, NEW t \in Tasks,
                      request[t].step = "saving", request'[t] = Idle,
                      request[t].about.api, ~request[t].stale,
                      \A k \in Keys : env[k] # "" => request[t].about.sub[k] = Unset
               PROVE  Status(Resolve(stored')) = "available"
    OBVIOUS
  <2> DEFINE sub == request[t].about.sub
  <2>1. owners # {}
    BY DEF SavesInv, IInv, Claimed, SaveSteps
  <2>2. \E u \in Tasks : Save(u)
    BY <2>1 DEF Next, vars, runtime, health, Claim, Enter, Refuse, Insert, SubmitApi, ReadStored,
                SubmitForm, OpenRuntime, Select, Fill, ReadRows, Flush, Commit, RefreshOne,
                StoreOne, Fails, RefreshAll, StoreAll, Restart
  <2>3. PICK u \in Tasks : Save(u)
    BY <2>2
  <2>4. u = t
    <3>1. Ends(u, {"probing", "saving"})
      BY <2>3 DEF Save
    <3>2. \A v \in Tasks \ {u} : request'[v].step = request[v].step
      BY <3>1, EndsFacts
    <3>3. Idle.step = "idle"
      BY DEF Idle
    <3>4. request'[t].step = "idle"
      BY <3>3
    <3> QED
      BY <3>2, <3>4
  <2>5. request[t].about.view = stored /\ Passes(stored, sub)
    BY DEF SavesInv, PairsHeld, HoldsPair
  <2>6. stored' = Saved(stored, sub) /\ UNCHANGED env
    BY <2>3, <2>4, <2>5 DEF Save
  <2>7. /\ Resolve(stored') = Tried(stored, sub)
        /\ Changed(stored, sub) = {} => stored' = stored
    BY <2>6, SavedIsTried DEF SavesInv, IInv, Functions
  <2> QED
    BY <2>5, <2>7 DEF Passes
<1> QED
  BY <1>1, SavesInitInv, SavesStepInv, PTL DEF Spec, ProbedTogether

-----------------------------------------------------------------------------
(***************************************************************************)
(* The types of the variables, which rest on those of what requests hold.  *)
(***************************************************************************)

RowValues == [Fields -> {Missing, Off, On}]

\* What a request at each step has been given or has read.
Typed(t) ==
  /\ request[t].step \in SaveSteps => request[t].about.sub \in Submissions
  /\ request[t].step \in {"loading", "filling"} =>
       request[t].about.form \in Submitted \cup {NotSaving}
  /\ request[t].step = "form" => request[t].about.form \in Submitted
  /\ request[t].step \in FormSteps => request[t].about.loaded \in RowValues
  /\ request[t].step \in WriteSteps => request[t].about.values \in [Fields -> {Off, On}]

AllTyped == \A t \in Tasks : Typed(t)

TypesInv ==
  /\ IInv
  /\ TypeOK
  /\ cache \subseteq RowValues
  /\ AllTyped

\* The others are as they were or idle.
Aside(t) == \A u \in Tasks \ {t} : Stays(u) \/ request'[u].step = "idle"

LEMMA TypedAside ==
  ASSUME AllTyped, NEW t \in Tasks, Aside(t), Typed(t)'
  PROVE  AllTyped'
<1> SUFFICES ASSUME NEW u \in Tasks, u # t PROVE Typed(u)'
  BY DEF AllTyped
<1>1. CASE Stays(u)
  BY <1>1 DEF AllTyped, Typed, Stays
<1>2. CASE request'[u].step = "idle"
  BY <1>2 DEF Typed, SaveSteps, FormSteps, WriteSteps
<1> QED
  BY <1>1, <1>2 DEF Aside

\* A step at which a request holds nothing typed.
LEMMA UntypedStep ==
  ASSUME NEW t \in Tasks, request'[t].step \in {"idle", "claim", "claiming", "refreshing"}
  PROVE  Typed(t)'
BY DEF Typed, SaveSteps, FormSteps, WriteSteps

LEMMA PayloadTyped ==
  ASSUME NEW form \in Submitted, NEW loaded \in RowValues
  PROVE  Payload(form, loaded) \in [Fields -> {Off, On}]
<1>1. form.value \in {Off, On} /\ form.auto \in {Off, On}
  BY DEF Submitted, Forms
<1>2. \A f \in Fields : Runtime(loaded)[f] \in {Off, On}
  BY DEF Runtime, RowValues, Missing
<1> QED
  BY <1>1, <1>2 DEF Payload

LEMMA SavedTyped ==
  ASSUME stored \in [Keys -> Values \cup {""}], NEW view,
         NEW sub \in [Keys -> Values \cup {"", Unset}]
  PROVE  Saved(view, sub) \in [Keys -> Values \cup {""}]
BY DEF Saved, Written

-----------------------------------------------------------------------------
\* Requests.
LEMMA BeginTyped ==
  ASSUME TypesInv, NEW t \in Tasks,
         \/ Claim(t) \/ SubmitApi(t) \/ SubmitForm(t) \/ OpenRuntime(t) \/ RefreshOne(t)
  PROVE  AllTyped'
<1>1. ASSUME NEW step, NEW about, NEW stale, Begin(t, step, about, stale)
      PROVE  Aside(t) /\ request'[t].step = step /\ request'[t].about = about
  BY <1>1, BeginMoves DEF TypesInv, IInv, Aside
<1>2. CASE Claim(t) \/ RefreshOne(t)
  <2>1. Aside(t) /\ request'[t].step \in {"claim", "refreshing"}
    <3>1. CASE Claim(t)
      <4>1. PICK c : Begin(t, "claim", c, FALSE)
        BY <3>1 DEF Claim
      <4> QED
        BY <1>1, <4>1
    <3>2. CASE RefreshOne(t)
      <4>1. PICK about : Begin(t, "refreshing", about, FALSE)
        BY <3>2 DEF RefreshOne, Asks
      <4> QED
        BY <1>1, <4>1
    <3> QED
      BY <1>2, <3>1, <3>2
  <2> QED
    BY <2>1, UntypedStep, TypedAside DEF TypesInv
<1>3. CASE SubmitApi(t) \/ SubmitForm(t)
  <2>1. \E sub \in Submissions, step \in SaveSteps :
           \E about : about.sub = sub /\ Begin(t, step, about, FALSE)
    <3>1. CASE SubmitApi(t)
      BY <3>1 DEF SubmitApi, Asks, SaveSteps
    <3>2. CASE SubmitForm(t)
      BY <3>2 DEF SubmitForm, Asks, SaveSteps, FormFields
    <3> QED
      BY <1>3, <3>1, <3>2
  <2>2. PICK sub \in Submissions, step \in SaveSteps :
           \E about : about.sub = sub /\ Begin(t, step, about, FALSE)
    BY <2>1
  <2>3. PICK about : about.sub = sub /\ Begin(t, step, about, FALSE)
    BY <2>2
  <2>4. Aside(t) /\ request'[t].step \in SaveSteps /\ request'[t].about.sub \in Submissions
    BY <1>1, <2>2, <2>3
  <2>5. Typed(t)'
    BY <2>4 DEF Typed, SaveSteps, FormSteps, WriteSteps
  <2> QED
    BY <2>4, <2>5, TypedAside DEF TypesInv
<1>4. CASE OpenRuntime(t)
  <2>1. PICK form \in Submitted \cup {NotSaving} :
          IF cache = {} THEN Asks(t, "loading", [form |-> form], FALSE)
          ELSE form # NotSaving /\ \E loaded \in cache :
                 Asks(t, "form", [form |-> form, loaded |-> loaded], loaded # rows)
    BY <1>4 DEF OpenRuntime
  <2>2. CASE cache = {}
    <3>1. Begin(t, "loading", [form |-> form], FALSE)
      BY <2>1, <2>2 DEF Asks
    <3>2. Aside(t) /\ request'[t].step = "loading" /\ request'[t].about = [form |-> form]
      BY <1>1, <3>1
    <3>3. Typed(t)'
      BY <2>1, <3>2 DEF Typed, SaveSteps, FormSteps, WriteSteps
    <3> QED
      BY <3>2, <3>3, TypedAside DEF TypesInv
  <2>3. CASE cache # {}
    <3>1. form \in Submitted
      BY <2>1, <2>3
    <3>2. PICK loaded, about, stale :
            /\ loaded \in cache /\ about = [form |-> form, loaded |-> loaded]
            /\ Begin(t, "form", about, stale)
      BY <2>1, <2>3 DEF Asks
    <3>3. Aside(t) /\ request'[t].step = "form" /\ request'[t].about = about
      BY <1>1, <3>2
    <3>4. about.form = form /\ about.loaded = loaded /\ loaded \in RowValues
      BY <3>2 DEF TypesInv
    <3>5. Typed(t)'
      BY <3>1, <3>3, <3>4 DEF Typed, SaveSteps, FormSteps, WriteSteps
    <3> QED
      BY <3>3, <3>5, TypedAside DEF TypesInv
  <2> QED
    BY <2>2, <2>3
<1> QED
  BY <1>2, <1>3, <1>4

LEMMA GoesTyped ==
  ASSUME TypesInv, NEW t \in Tasks,
         \/ Enter(t) \/ ReadStored(t) \/ Select(t) \/ Fill(t) \/ ReadRows(t) \/ Flush(t)
  PROVE  AllTyped'
<1>1. ASSUME NEW step, NEW about, Goes(t, step, about)
      PROVE  Aside(t) /\ request'[t].step = step /\ request'[t].about = about
  BY <1>1, GoesMoves DEF TypesInv, IInv, Aside
<1>2. Typed(t) /\ rows \in RowValues
  BY DEF TypesInv, AllTyped, TypeOK, RowValues
<1>3. CASE Enter(t)
  <2>1. CASE Refuse(t)
    <3>1. Ends(t, {})
      BY <2>1 DEF Refuse
    <3>2. Aside(t) /\ request'[t].step = "idle"
      BY <3>1, EndsMoves DEF Aside, Moves
    <3> QED
      BY <3>2, UntypedStep, TypedAside DEF TypesInv
  <2>2. CASE Goes(t, "claiming", request[t].about)
    BY <1>1, <2>2, UntypedStep, TypedAside DEF TypesInv
  <2> QED
    BY <1>3, <2>1, <2>2 DEF Enter
<1>4. CASE ReadStored(t)
  <2>1. PICK about : about.sub = request[t].about.sub /\ Goes(t, "saving", about)
    BY <1>4 DEF ReadStored
  <2>2. Aside(t) /\ request'[t].step = "saving" /\ request'[t].about.sub = request[t].about.sub
    BY <1>1, <2>1
  <2>3. request[t].about.sub \in Submissions
    BY <1>2, <1>4 DEF ReadStored, Typed, SaveSteps
  <2>4. Typed(t)'
    BY <2>2, <2>3 DEF Typed, SaveSteps, FormSteps, WriteSteps
  <2> QED
    BY <2>2, <2>4, TypedAside DEF TypesInv
<1>5. CASE Select(t)
  <2>1. PICK about : /\ about.form = request[t].about.form /\ about.loaded = rows
                     /\ Goes(t, "filling", about)
    BY <1>5 DEF Select
  <2>2. /\ Aside(t) /\ request'[t].step = "filling"
        /\ request'[t].about.form = request[t].about.form /\ request'[t].about.loaded = rows
    BY <1>1, <2>1
  <2>3. request[t].about.form \in Submitted \cup {NotSaving}
    BY <1>2, <1>5 DEF Select, Typed
  <2>4. Typed(t)'
    BY <1>2, <2>2, <2>3 DEF Typed, SaveSteps, FormSteps, WriteSteps
  <2> QED
    BY <2>2, <2>4, TypedAside DEF TypesInv
<1>6. CASE Fill(t)
  <2>1. CASE request' = [request EXCEPT ![t] = Idle]
    <3>1. Aside(t) /\ request'[t].step = "idle"
      BY <2>1, IdleMoves DEF Aside, Moves, TypesInv, IInv
    <3> QED
      BY <3>1, UntypedStep, TypedAside DEF TypesInv
  <2>2. CASE request[t].about.form # NotSaving /\ Goes(t, "form", request[t].about)
    <3>1. Aside(t) /\ request'[t].step = "form" /\ request'[t].about = request[t].about
      BY <1>1, <2>2
    <3>2. request[t].about.form \in Submitted /\ request[t].about.loaded \in RowValues
      BY <1>2, <1>6, <2>2 DEF Fill, Typed, FormSteps
    <3>3. Typed(t)'
      BY <3>1, <3>2 DEF Typed, SaveSteps, FormSteps, WriteSteps
    <3> QED
      BY <3>1, <3>3, TypedAside DEF TypesInv
  <2> QED
    BY <1>6, <2>1, <2>2 DEF Fill
<1>7. CASE ReadRows(t)
  <2> DEFINE values == Payload(request[t].about.form, request[t].about.loaded)
  <2>1. PICK about : about.values = values /\ Goes(t, "writing", about)
    BY <1>7 DEF ReadRows
  <2>2. request[t].about.form \in Submitted /\ request[t].about.loaded \in RowValues
    BY <1>2, <1>7 DEF ReadRows, Typed, FormSteps
  <2>3. values \in [Fields -> {Off, On}]
    BY <2>2, PayloadTyped
  <2>4. Aside(t) /\ request'[t].step = "writing" /\ request'[t].about.values \in [Fields -> {Off, On}]
    BY <1>1, <2>1, <2>3
  <2>5. Typed(t)'
    BY <2>4 DEF Typed, SaveSteps, FormSteps, WriteSteps
  <2> QED
    BY <2>4, <2>5, TypedAside DEF TypesInv
<1>8. CASE Flush(t)
  <2>1. Aside(t) /\ request'[t].step = "flushed" /\ request'[t].about = request[t].about
    BY <1>1, <1>8 DEF Flush
  <2>2. request[t].about.values \in [Fields -> {Off, On}]
    BY <1>2, <1>8 DEF Flush, Typed, WriteSteps
  <2>3. Typed(t)'
    BY <2>1, <2>2 DEF Typed, SaveSteps, FormSteps, WriteSteps
  <2> QED
    BY <2>1, <2>3, TypedAside DEF TypesInv
<1> QED
  BY <1>3, <1>4, <1>5, <1>6, <1>7, <1>8

LEMMA EndsTyped ==
  ASSUME TypesInv, NEW t \in Tasks,
         Insert(t) \/ Save(t) \/ Commit(t) \/ StoreOne(t) \/ Fails(t)
  PROVE  AllTyped'
<1>1. Moves(t, {})
  <2>1. CASE Insert(t) \/ Save(t) \/ Commit(t)
    <3>1. PICK steps : Ends(t, steps)
      BY <2>1 DEF Insert, Refuse, Save, Commit
    <3> QED
      BY <3>1, EndsMoves
  <2>2. CASE StoreOne(t) \/ Fails(t)
    <3>1. request' = [request EXCEPT ![t] = Idle]
      BY <2>2 DEF StoreOne, Fails
    <3> QED
      BY <3>1, IdleMoves DEF TypesInv, IInv
  <2> QED
    BY <2>1, <2>2
<1>2. Aside(t) /\ request'[t].step = "idle"
  BY <1>1 DEF Moves, Aside
<1> QED
  BY <1>2, UntypedStep, TypedAside DEF TypesInv

LEMMA RequestsTyped ==
  ASSUME TypesInv, [Next]_vars
  PROVE  AllTyped'
<1>1. CASE UNCHANGED vars \/ RefreshAll \/ StoreAll \/ Restart
  <2>1. \A u \in Tasks : Stays(u) \/ request'[u].step = "idle"
    BY <1>1 DEF vars, RefreshAll, StoreAll, Restart, Stays, Idle
  <2>2. ASSUME NEW t \in Tasks PROVE Typed(t)'
    <3>1. CASE Stays(t)
      BY <3>1 DEF TypesInv, AllTyped, Typed, Stays
    <3> QED
      BY <2>1, <3>1, UntypedStep
  <2> QED
    BY <2>2 DEF AllTyped
<1>2. ASSUME NEW t \in Tasks,
             \/ Claim(t) \/ SubmitApi(t) \/ SubmitForm(t) \/ OpenRuntime(t) \/ RefreshOne(t)
      PROVE  AllTyped'
  BY <1>2, BeginTyped
<1>3. ASSUME NEW t \in Tasks,
             \/ Enter(t) \/ ReadStored(t) \/ Select(t) \/ Fill(t) \/ ReadRows(t) \/ Flush(t)
      PROVE  AllTyped'
  BY <1>3, GoesTyped
<1>4. ASSUME NEW t \in Tasks,
             Insert(t) \/ Save(t) \/ Commit(t) \/ StoreOne(t) \/ Fails(t)
      PROVE  AllTyped'
  BY <1>4, EndsTyped
<1> QED
  BY <1>1, <1>2, <1>3, <1>4 DEF Next

-----------------------------------------------------------------------------
\* The variables, by the steps that change them.
LEMMA SetupTyped ==
  ASSUME TypesInv, [Next]_vars
  PROVE  /\ owners' \subseteq DOMAIN Claims
         /\ answer' \in [DOMAIN Claims -> {"none", "pending", "owner", "refused"}]
         /\ setupLock' \in Here \cup {Nobody}
<1>0. /\ owners \subseteq DOMAIN Claims
      /\ answer \in [DOMAIN Claims -> {"none", "pending", "owner", "refused"}]
      /\ setupLock \in Here \cup {Nobody}
  BY DEF TypesInv, TypeOK
<1>1. \/ UNCHANGED setup
      \/ \E t \in Tasks : Claim(t) \/ Enter(t) \/ Insert(t) \/ Fails(t)
      \/ Restart
  BY DEF Next, vars, SubmitApi, ReadStored, SubmitForm, Save, OpenRuntime, Select, Fill, ReadRows,
         Flush, Commit, RefreshOne, StoreOne, RefreshAll, StoreAll
<1>2. CASE UNCHANGED setup \/ Restart
  BY <1>0, <1>2 DEF setup, Restart
<1>3. ASSUME NEW t \in Tasks, Claim(t) \/ Fails(t)
      PROVE  /\ owners' = owners
             /\ answer' \in [DOMAIN Claims -> {"none", "pending", "owner", "refused"}]
             /\ setupLock' \in {setupLock, Nobody}
  BY <1>0, <1>3 DEF Claim, Fails, Release
<1>4. ASSUME NEW t \in Tasks, Enter(t) \/ Insert(t)
      PROVE  /\ owners' \subseteq DOMAIN Claims
             /\ answer' \in [DOMAIN Claims -> {"none", "pending", "owner", "refused"}]
             /\ setupLock' \in Here \cup {Nobody}
  <2>1. request[t].about \in DOMAIN Claims
    BY <1>4 DEF Enter, Insert, TypesInv, IInv, Claimed, ClaimSteps
  <2> QED
    BY <1>0, <1>4, <2>1 DEF Enter, Insert, Refuse, Release
<1> QED
  BY <1>0, <1>1, <1>2, <1>3, <1>4

LEMMA StoredTyped ==
  ASSUME TypesInv, [Next]_vars
  PROVE  stored' \in [Keys -> Values \cup {""}]
<1>0. stored \in [Keys -> Values \cup {""}]
  BY DEF TypesInv, TypeOK
<1>1. stored' = stored \/ \E t \in Tasks : Insert(t) \/ Save(t)
  BY DEF Next, vars, Claim, Enter, Refuse, SubmitApi, ReadStored, SubmitForm, OpenRuntime, Select,
         Fill, ReadRows, Flush, Commit, RefreshOne, StoreOne, Fails, RefreshAll, StoreAll, Restart
<1>2. ASSUME NEW t \in Tasks, Insert(t)
      PROVE  stored' \in [Keys -> Values \cup {""}]
  <2>1. stored' = stored \/ stored' = Saved(stored, Claims[request[t].about])
    BY <1>2 DEF Insert, Refuse
  <2>2. request[t].about \in DOMAIN Claims
    BY <1>2 DEF Insert, TypesInv, IInv, Claimed, ClaimSteps
  <2>3. Claims[request[t].about] \in [Keys -> Values \cup {"", Unset}]
    BY <2>2, ConfigurationAssumption
  <2>4. Saved(stored, Claims[request[t].about]) \in [Keys -> Values \cup {""}]
    BY <1>0, <2>3, SavedTyped, Zenon
  <2> QED
    BY <1>0, <2>1, <2>4, Zenon
<1>3. ASSUME NEW t \in Tasks, Save(t)
      PROVE  stored' \in [Keys -> Values \cup {""}]
  <2> DEFINE sub == request[t].about.sub
  <2>1. stored' = stored \/ stored' = Saved(request[t].about.view, sub)
    BY <1>3 DEF Save
  <2>2. sub \in Submissions
    BY <1>3 DEF Save, TypesInv, AllTyped, Typed, SaveSteps
  <2>3. sub \in [Keys -> Values \cup {"", Unset}]
    BY <2>2, ConfigurationAssumption
  <2>4. Saved(request[t].about.view, sub) \in [Keys -> Values \cup {""}]
    BY <1>0, <2>3, SavedTyped, Zenon
  <2> QED
    BY <1>0, <2>1, <2>4, Zenon
<1> QED
  BY <1>0, <1>1, <1>2, <1>3

LEMMA RuntimeTyped ==
  ASSUME TypesInv, [Next]_vars
  PROVE  /\ rows' \in RowValues
         /\ cache' \subseteq RowValues /\ Cardinality(cache') <= 1
         /\ writer' \in Here \cup {Nobody}
<1>0. /\ rows \in RowValues /\ cache \subseteq RowValues /\ Cardinality(cache) <= 1
      /\ writer \in Here \cup {Nobody}
  BY DEF TypesInv, TypeOK, RowValues
<1>1. \/ UNCHANGED <<rows, cache, writer>>
      \/ \E t \in Tasks : Fill(t) \/ Flush(t) \/ Commit(t) \/ Fails(t)
      \/ Restart
  BY DEF Next, vars, runtime, Claim, Enter, Insert, SubmitApi, ReadStored, SubmitForm, Save,
         OpenRuntime, Select, ReadRows, RefreshOne, StoreOne, RefreshAll, StoreAll
<1>2. Cardinality({}) <= 1
  BY FS_EmptySet
<1>3. ASSUME NEW t \in Tasks, Fill(t)
      PROVE  /\ UNCHANGED <<rows, writer>>
             /\ cache' \subseteq RowValues /\ Cardinality(cache') <= 1
  <2>1. cache' = {request[t].about.loaded} /\ UNCHANGED <<rows, writer>>
    BY <1>3 DEF Fill
  <2>2. request[t].about.loaded \in RowValues
    BY <1>3 DEF Fill, TypesInv, AllTyped, Typed, FormSteps
  <2>3. Cardinality({request[t].about.loaded}) = 1
    BY FS_Singleton
  <2> QED
    BY <2>1, <2>2, <2>3
<1>4. ASSUME NEW t \in Tasks, Flush(t)
      PROVE  rows' = rows /\ cache' = {} /\ writer' \in Here
  BY <1>4 DEF Flush, TypesInv, IInv, Cached, RuntimeSteps
<1>5. ASSUME NEW t \in Tasks, Commit(t)
      PROVE  rows' \in RowValues /\ cache' = cache /\ writer' = Nobody
  <2>1. request[t].about.values \in [Fields -> {Off, On}]
    BY <1>5 DEF Commit, TypesInv, AllTyped, Typed, WriteSteps
  <2> QED
    BY <1>0, <1>5, <2>1 DEF Commit, RowValues
<1>6. ASSUME NEW t \in Tasks, Fails(t)
      PROVE  rows' = rows /\ cache' = cache /\ writer' \in {writer, Nobody}
  BY <1>6 DEF Fails
<1>7. CASE Restart
  BY <1>0, <1>2, <1>7 DEF Restart
<1> QED
  BY <1>0, <1>1, <1>2, <1>3, <1>4, <1>5, <1>6, <1>7

LEMMA HealthTyped ==
  ASSUME TypesInv, [Next]_vars
  PROVE  snapshot' \in {"unchecked", "unconfigured", "available", "failed"}
<1>1. \/ snapshot' = snapshot \/ snapshot' = "unchecked"
      \/ \E db : Probe(db)
  BY DEF Next, vars, health, Claim, Enter, Insert, SubmitApi, ReadStored, SubmitForm, Save,
         OpenRuntime, Select, Fill, ReadRows, Flush, Commit, RefreshOne, StoreOne, Fails,
         RefreshAll, StoreAll, Restart
<1> QED
  BY <1>1 DEF Probe, Status, TypesInv, TypeOK

LEMMA TypesInit == Init => TypesInv
<1> SUFFICES ASSUME Init PROVE TypesInv
  OBVIOUS
<1>1. Cardinality({}) <= 1
  BY FS_EmptySet
<1>2. TypeOK
  BY <1>1 DEF Init, TypeOK
<1>3. AllTyped
  BY DEF Init, Idle, AllTyped, Typed, SaveSteps, FormSteps, WriteSteps
<1> QED
  BY <1>2, <1>3, InitInv DEF TypesInv, Init

\* Every variable has its type: only what is submitted, and never that nothing was,
\* is stored, and locks are held by tasks of this process (settings_service.py,
\* setup_owner).
THEOREM ConfigurationType == Spec => []TypeOK
<1>1. TypesInv /\ [Next]_vars => TypesInv'
  <2> SUFFICES ASSUME TypesInv, [Next]_vars PROVE TypesInv'
    OBVIOUS
  <2>1. IInv'
    BY StepInv DEF TypesInv
  <2>2. TypeOK' /\ cache' \subseteq RowValues
    BY SetupTyped, StoredTyped, RuntimeTyped, HealthTyped DEF TypeOK, RowValues
  <2>3. AllTyped'
    BY RequestsTyped
  <2> QED
    BY <2>1, <2>2, <2>3 DEF TypesInv, RowValues
<1>2. TypesInv => TypeOK
  BY DEF TypesInv
<1> QED
  BY <1>1, <1>2, TypesInit, PTL DEF Spec
=============================================================================
