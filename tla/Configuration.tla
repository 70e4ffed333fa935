---------------------------- MODULE Configuration ---------------------------
(***************************************************************************)
(* The configuration of the application: the first owner (routers/auth.py),*)
(* provider settings under the environment, runtime settings behind a      *)
(* cache of the process (settings_service.py, routers/settings.py), and    *)
(* the health of the providers, probed in the background                   *)
(* (services/health_status.py).  Requests interleave at every await.       *)
(*                                                                         *)
(* From the first statement that writes to the commit a session has the    *)
(* write lock of the database; reads see what is committed.  A commit that *)
(* another step can come before or after, but not between, is one step with*)
(* the writes; only the runtime settings, whose cache is cleared in        *)
(* between, need two.                                                      *)
(***************************************************************************)
EXTENDS Integers, FiniteSets

CONSTANTS Tasks,        \* slots for concurrent requests, numbers
          Elsewhere,    \* those of other processes on the same database
          Claims,       \* claims for the first owner: claim -> provider settings
          Environments, \* what the environment may set
          Values,       \* values of each provider setting
          Submissions,  \* what a request may submit
          Accepted,     \* pairs the provider accepts
          Sections,     \* pages of runtime settings, "behavior" among them
          MaxRequests, MaxFaults  \* bounds

Keys == {"url", "key"}      \* of one provider; the key is a secret
Unset == "unset"

ASSUME ConfigurationAssumption ==
  /\ Tasks \subseteq Nat \ {0} /\ Elsewhere \subseteq Tasks
  /\ Submissions \subseteq [Keys -> Values \cup {"", Unset}]
  /\ \A c \in DOMAIN Claims : Claims[c] \in [Keys -> Values \cup {""}]
  /\ "behavior" \in Sections /\ "auto" \notin Sections
  /\ MaxRequests \in Nat /\ MaxFaults \in Nat

Nobody == 0
Fields == Sections \cup {"auto"}   \* app_settings; auto is auto_download_wanted
Missing == 0                       \* no row
Off == 1                           \* the default of every field
On == 2

VARIABLES env,      \* provider settings the environment sets, "" for none
          owners,   \* claims with an owner in app_users
          answer,   \* what each claim was answered
          stored,   \* provider_settings, "" for no row
          rows,     \* app_settings
          cache,    \* runtime cache of this process: {} or what it holds
          setupLock, \* task in the lock of this process
          writer,   \* task with the write lock across steps
          request,  \* what each task is doing
          snapshot, \* health of the provider as last probed
          loop,     \* the background refresh: {} or the settings it probes
          crossed,  \* history: the cache was filled across a save
          begun, faults

setup == <<owners, answer, setupLock>>
runtime == <<rows, cache, writer, crossed>>
health == <<snapshot, loop>>
bounds == <<begun, faults>>
vars == <<env, setup, stored, runtime, request, health, bounds>>

Idle == [step |-> "idle", about |-> {}, stale |-> FALSE]
Here == Tasks \ Elsewhere

-----------------------------------------------------------------------------
(* Values.                                                                 *)

\* resolve_for_probe, compute_effective_value, build_effective_settings
Resolve(db) == [k \in Keys |-> IF env[k] # "" THEN env[k] ELSE db[k]]

Status(pair) ==
  IF \E k \in Keys : pair[k] = "" THEN "unconfigured"
  ELSE IF pair \in Accepted THEN "available" ELSE "failed"

\* Fault: what is not submitted is written as well.
WrittenUnset(sub) == {k \in Keys : env[k] = "" /\ ~(k = "key" /\ sub[k] = "")}

\* Keys of sub that save_settings writes: none the environment sets, no blank secret.
Written(sub) ==
  {k \in Keys : env[k] = "" /\ sub[k] # Unset /\ ~(k = "key" /\ sub[k] = "")}

\* What the rows become; secrets are encrypted anew, other columns are only
\* updated if they differ from what was read.
Saved(view, sub) ==
  [k \in Keys |-> IF k \in Written(sub) /\ (k = "key" \/ sub[k] # view[k]) THEN sub[k] ELSE stored[k]]

\* An INSERT of a row that exists, or an UPDATE of one that is gone.
Collides(view, sub) ==
  \E k \in Written(sub) : sub[k] # "" /\ (view[k] = "") # (stored[k] = "")

\* get_runtime_settings
Runtime(values) == [f \in Fields |-> IF values[f] = Missing THEN Off ELSE values[f]]

-----------------------------------------------------------------------------
(* Requests.                                                               *)

\* A request at a step, about what it has read or was given; slots of a process
\* are alike, and the first that is free is taken.
Begin(t, step, about, stale) ==
  /\ request[t] = Idle
  /\ \A u \in Tasks : u < t /\ (u \in Here <=> t \in Here) => request[u] # Idle
  /\ request' = [request EXCEPT ![t] = [step |-> step, about |-> about, stale |-> stale]]

Goes(t, step, about) ==
  request' = [request EXCEPT ![t] = [step |-> step, about |-> about, stale |-> request[t].stale]]

\* A request of a signed-in user, in this process.
Asks(t, step, about, stale) ==
  /\ t \in Here /\ owners # {} /\ begun < MaxRequests
  /\ begun' = begun + 1
  /\ Begin(t, step, about, stale)

\* What requests at the given steps hold is no longer so.
Ends(t, steps) ==
  request' = [u \in Tasks |->
    IF u = t THEN Idle
    ELSE [step |-> request[u].step, about |-> request[u].about,
          stale |-> request[u].stale \/ request[u].step \in steps]]

Release(t) == setupLock' = IF setupLock = t THEN Nobody ELSE setupLock

\* An exception or a cancellation: the transaction is rolled back.
Fails(t) ==
  /\ request[t] # Idle
  /\ faults < MaxFaults /\ faults' = faults + 1
  /\ request' = [request EXCEPT ![t] = Idle]
  /\ Release(t)
  /\ writer' = IF writer = t THEN Nobody ELSE writer
  /\ UNCHANGED <<env, owners, answer, stored, rows, cache, crossed, health, begun>>

-----------------------------------------------------------------------------
(* setup_owner                                                             *)

\* The first look, before the password is hashed.
Claim(t) ==
  /\ owners = {}
  /\ \E c \in DOMAIN Claims :
       /\ answer[c] = "none"
       /\ answer' = [answer EXCEPT ![c] = "pending"]
       /\ Begin(t, "claim", c, FALSE)
  /\ UNCHANGED <<env, owners, setupLock, stored, runtime, health, bounds>>

Refuse(t) ==
  /\ answer' = [answer EXCEPT ![request[t].about] = "refused"]
  /\ Release(t)
  /\ Ends(t, {})
  /\ UNCHANGED <<owners, stored>>

\* The second look, in the lock of the process.
Enter(t) ==
  /\ request[t].step = "claim"
  /\ \/ /\ owners # {}
        /\ Refuse(t)
     \/ /\ owners = {}
        /\ setupLock' = IF t \in Here THEN t ELSE setupLock
        /\ Goes(t, "claiming", request[t].about)
        /\ UNCHANGED <<owners, answer, stored>>
  /\ t \in Here => setupLock = Nobody
  /\ UNCHANGED <<env, runtime, health, bounds>>

\* Fault: nothing but the looks keeps a second owner out.
InsertUnchecked(t) ==
  /\ request[t].step = "claiming" /\ writer = Nobody
  /\ LET c == request[t].about
     IN /\ owners' = owners \cup {c}
        /\ stored' = Saved(stored, Claims[c])
        /\ answer' = [answer EXCEPT ![c] = "owner"]
        /\ Release(t)
        /\ Ends(t, {})
  /\ UNCHANGED <<env, runtime, health, bounds>>

\* Owner, session and settings in one transaction; the partial unique index
\* refuses a second owner.
Insert(t) ==
  /\ request[t].step = "claiming" /\ writer = Nobody
  /\ \/ /\ owners # {}
        /\ Refuse(t)
     \/ LET c == request[t].about
        IN /\ owners = {}
           /\ owners' = owners \cup {c}
           /\ stored' = Saved(stored, Claims[c])
           /\ answer' = [answer EXCEPT ![c] = "owner"]
           /\ Release(t)
           /\ Ends(t, {})
  /\ UNCHANGED <<env, runtime, health, bounds>>

-----------------------------------------------------------------------------
(* Provider settings.                                                      *)

\* The page submits all it shows, but not what the environment sets.
FormFields ==
  {sub \in Submissions : \A k \in Keys : (sub[k] = Unset) = (env[k] # "")}

Changed(raw, sub) ==
  {k \in Keys : sub[k] # Unset /\ ~(k = "key" /\ sub[k] = "") /\ sub[k] # Resolve(raw)[k]}

\* The pair that _backstop probes.
Tried(raw, sub) ==
  [k \in Keys |-> IF sub[k] = Unset \/ (k = "key" /\ sub[k] = "") THEN Resolve(raw)[k] ELSE sub[k]]

\* Fault: a pair is probed if both of it change.
PassesByHalves(raw, sub) == Changed(raw, sub) = Keys => Status(Tried(raw, sub)) = "available"

Passes(raw, sub) == Changed(raw, sub) # {} => Status(Tried(raw, sub)) = "available"

\* save_settings_api up to its probes; a submission that fails them is answered 422.
SubmitApi(t) ==
  /\ \E sub \in Submissions :
       /\ Passes(stored, sub)
       /\ Asks(t, "probing", [sub |-> sub], FALSE)
  /\ UNCHANGED <<env, setup, stored, runtime, health, faults>>

\* save_settings reads its rows, after the probes.
ReadStored(t) ==
  /\ request[t].step = "probing"
  /\ Goes(t, "saving", [api |-> TRUE, sub |-> request[t].about.sub, view |-> stored])
  /\ UNCHANGED <<env, setup, stored, runtime, health, bounds>>

\* save_settings_page: no probe; the page disables what the environment sets.
SubmitForm(t) ==
  /\ \E sub \in FormFields :
       Asks(t, "saving", [api |-> FALSE, sub |-> sub, view |-> stored], FALSE)
  /\ UNCHANGED <<env, setup, stored, runtime, health, faults>>

\* A collision is an exception.
Save(t) ==
  /\ request[t].step = "saving" /\ writer = Nobody
  /\ LET r == request[t].about
     IN stored' = IF Collides(r.view, r.sub) THEN stored ELSE Saved(r.view, r.sub)
  /\ Ends(t, {"probing", "saving"})
  /\ UNCHANGED <<env, setup, rows, cache, writer, crossed, health, bounds>>

-----------------------------------------------------------------------------
(* Runtime settings.                                                       *)

NotSaving == [section |-> "none", value |-> Off, auto |-> Off]

\* What a page of runtime settings submits: a field of its own, and on the page
\* "behavior" auto_download_wanted too.
Forms == [section : Sections, value : {Off, On}, auto : {Off, On}]
Submitted == {form \in Forms : form.section # "behavior" => form.auto = Off}

\* Fault: what the form leaves out gets its default.
PayloadOfDefaults(form, loaded) ==
  [f \in Fields |-> IF f = form.section THEN form.value ELSE IF f = "auto" THEN form.auto ELSE Off]

\* All the fields, those of other pages as the runtime settings have them.
Payload(form, loaded) ==
  [f \in Fields |-> IF f = form.section THEN form.value
                    ELSE IF f = "auto" THEN form.auto ELSE Runtime(loaded)[f]]

\* get_runtime_settings, by a page that shows them or one that saves them.
OpenRuntime(t) ==
  /\ \E form \in Submitted \cup {NotSaving} :
       IF cache = {} THEN Asks(t, "loading", [form |-> form], FALSE)
       ELSE form # NotSaving /\ \E loaded \in cache :
              Asks(t, "form", [form |-> form, loaded |-> loaded], loaded # rows)
  /\ UNCHANGED <<env, setup, stored, runtime, health, faults>>

Select(t) ==
  /\ request[t].step = "loading"
  /\ Goes(t, "filling", [form |-> request[t].about.form, loaded |-> rows])
  /\ UNCHANGED <<env, setup, stored, runtime, health, bounds>>

Fill(t) ==
  /\ request[t].step = "filling"
  /\ cache' = {request[t].about.loaded}
  /\ crossed' = (request[t].about.loaded # rows \/ writer # Nobody)
  /\ IF request[t].about.form = NotSaving
     THEN request' = [request EXCEPT ![t] = Idle]
     ELSE Goes(t, "form", request[t].about)
  /\ UNCHANGED <<env, setup, stored, rows, writer, health, bounds>>

\* save_runtime_settings reads the rows it is about to write.
ReadRows(t) ==
  /\ request[t].step = "form"
  /\ Goes(t, "writing", [values |-> Payload(request[t].about.form, request[t].about.loaded),
                         section |-> request[t].about.form.section, view |-> rows])
  /\ UNCHANGED <<env, setup, stored, runtime, health, bounds>>

\* Fault: the cache is kept.
FlushAlone(t) ==
  /\ request[t].step = "writing" /\ writer = Nobody
  /\ writer' = t
  /\ Goes(t, "flushed", request[t].about)
  /\ UNCHANGED <<env, setup, stored, rows, cache, crossed, health, bounds>>

\* Its flush, which takes the write lock; then the cache is cleared.  The rows
\* are inserted together, and never go.
Flush(t) ==
  /\ request[t].step = "writing" /\ writer = Nobody
  /\ \A f \in Fields : request[t].about.view[f] = Missing => rows[f] = Missing
  /\ writer' = t
  /\ cache' = {} /\ crossed' = FALSE
  /\ Goes(t, "flushed", request[t].about)
  /\ UNCHANGED <<env, setup, stored, rows, health, bounds>>

Commit(t) ==
  /\ request[t].step = "flushed"
  /\ LET r == request[t].about
     IN rows' = [f \in Fields |-> IF r.values[f] = r.view[f] THEN rows[f] ELSE r.values[f]]
  /\ writer' = Nobody
  /\ Ends(t, {"filling", "form", "writing"})
  /\ UNCHANGED <<env, setup, stored, cache, crossed, health, bounds>>

-----------------------------------------------------------------------------
(* Health of the provider.                                                 *)

\* _refresh_provider: the answer of a probe, or its time limit.
Probe(db) ==
  \/ snapshot' = Status(Resolve(db)) /\ UNCHANGED faults
  \/ /\ faults < MaxFaults /\ faults' = faults + 1
     /\ snapshot' = "failed"

\* refresh_all, of the background loop
RefreshAll ==
  /\ loop = {}
  /\ loop' = {stored}
  /\ UNCHANGED <<env, setup, stored, runtime, request, snapshot, bounds>>

\* Fault: what a single refresh has stored is kept.
StoreAllOnce ==
  /\ IF snapshot = "unchecked" THEN \E db \in loop : Probe(db)
     ELSE loop # {} /\ UNCHANGED <<snapshot, faults>>
  /\ loop' = {}
  /\ UNCHANGED <<env, setup, stored, runtime, request, begun>>

StoreAll ==
  /\ \E db \in loop : Probe(db)
  /\ loop' = {}
  /\ UNCHANGED <<env, setup, stored, runtime, request, begun>>

\* refresh_provider, of a request
RefreshOne(t) ==
  /\ Asks(t, "refreshing", [raw |-> stored], FALSE)
  /\ UNCHANGED <<env, setup, stored, runtime, health, faults>>

StoreOne(t) ==
  /\ request[t].step = "refreshing"
  /\ Probe(request[t].about.raw)
  /\ request' = [request EXCEPT ![t] = Idle]
  /\ UNCHANGED <<env, setup, stored, runtime, loop, begun>>

\* The process ends and is started again.
Restart ==
  /\ faults < MaxFaults /\ faults' = faults + 1
  /\ request' = [t \in Tasks |-> IF t \in Here THEN Idle ELSE request[t]]
  /\ setupLock' = Nobody /\ writer' = Nobody
  /\ cache' = {} /\ crossed' = FALSE
  /\ snapshot' = "unchecked" /\ loop' = {}
  /\ UNCHANGED <<env, owners, answer, stored, rows, begun>>

-----------------------------------------------------------------------------
Init ==
  /\ env \in Environments
  /\ owners = {} /\ answer = [c \in DOMAIN Claims |-> "none"] /\ setupLock = Nobody
  /\ stored = [k \in Keys |-> ""]
  /\ rows = [f \in Fields |-> Missing] /\ cache = {} /\ writer = Nobody /\ crossed = FALSE
  /\ request = [t \in Tasks |-> Idle]
  /\ snapshot = "unchecked" /\ loop = {}
  /\ begun = 0 /\ faults = 0

Next ==
  \/ \E t \in Tasks :
       \/ Claim(t) \/ Enter(t) \/ Insert(t)
       \/ SubmitApi(t) \/ ReadStored(t) \/ SubmitForm(t) \/ Save(t)
       \/ OpenRuntime(t) \/ Select(t) \/ Fill(t) \/ ReadRows(t) \/ Flush(t) \/ Commit(t)
       \/ RefreshOne(t) \/ StoreOne(t)
       \/ Fails(t)
  \/ RefreshAll \/ StoreAll \/ Restart

\* The loop waits at most for its time limit and three seconds of each probe.
Fairness == WF_vars(RefreshAll) /\ WF_vars(StoreAll)

Spec == Init /\ [][Next]_vars /\ Fairness

-----------------------------------------------------------------------------
(* Properties.                                                             *)

\* The shape of the state: only what is submitted is stored, every field is a row
\* or the default, and locks are held by tasks of this process.
TypeOK ==
  /\ owners \subseteq DOMAIN Claims
  /\ answer \in [DOMAIN Claims -> {"none", "pending", "owner", "refused"}]
  /\ stored \in [Keys -> Values \cup {""}]
  /\ rows \in [Fields -> {Missing, Off, On}]
  /\ Cardinality(cache) <= 1
  /\ setupLock \in Here \cup {Nobody} /\ writer \in Here \cup {Nobody}
  /\ snapshot \in {"unchecked", "unconfigured", "available", "failed"}

\* However many claims race, in this process and others, one becomes the owner:
\* who is answered that it is the owner is, all others may only be refused, and
\* before there is an owner nothing of any claim is stored.
OneOwner ==
  /\ Cardinality(owners) <= 1
  /\ \A c \in DOMAIN Claims : answer[c] = "owner" <=> c \in owners
  /\ \A c \in DOMAIN Claims : answer[c] = "refused" => owners # {}
  /\ owners = {} => \A k \in Keys : stored[k] = ""

\* The runtime settings that requests are served are those in the database, unless
\* the cache was filled by a load that a save crossed.
CacheIsFresh == \A held \in cache : crossed \/ held = rows

\* A save on one page of runtime settings keeps what the other pages have saved,
\* except auto_download_wanted, unless another save came between or what it was
\* given was out of date.
SavesKeepTheRest ==
  [][\A t \in Tasks : Commit(t) /\ ~request[t].stale =>
       \A f \in Fields \ {request[t].about.section, "auto"} :
         Runtime(rows')[f] = Runtime(rows)[f]]_rows

\* A save through the API that changes what the provider is used with leaves a pair
\* that has been probed together, unless another save came between or it submits
\* what the environment sets.
ProbedTogether ==
  [][\A t \in Tasks :
       /\ request[t].step = "saving" /\ request'[t] = Idle
       /\ request[t].about.api /\ ~request[t].stale
       /\ \A k \in Keys : env[k] # "" => request[t].about.sub[k] = Unset
       => Status(Resolve(stored')) = "available"]_stored

\* When settings come to rest the health shown for the provider comes to be that of
\* the settings it has, whatever older probes stored last.
HealthConverges == <>[](snapshot = Status(Resolve(stored)))
=============================================================================
