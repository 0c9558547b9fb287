----------------------------- MODULE UpdateCheck -----------------------------
(***************************************************************************)
(* The update check (internal/updatecheck, internal/registry): it compares  *)
(* what the stacks' services run against what their registry offers, shows  *)
(* the answer as markers and sends one alert per newly appearing update.    *)
(* The interval ticker and a nudge after every deploy run start checks      *)
(* concurrently; runMu serialises them.                                     *)
(*                                                                         *)
(* All services run images of one repository, and every stack has one       *)
(* service.  One service's questions to the registry are one step.          *)
(***************************************************************************)
EXTENDS ImageTags, Transport, SequencesExt

CONSTANTS
    Error,          \* a question that was not answered
    Stack,
    sortedKeys,     \* a set of stacks as the list of their names, sorted
    FirstTag,       \* the tag the repository starts with and every service runs
    Tag,            \* tags it may publish
    Pinned, Built,  \* stacks whose image is digest-pinned, or built locally
    registryAnswers,\* how the registry may answer: see do
    maxTagsPages,   \* pages of the tags list that are read, one tag per page
    Budgets         \* bounds: how many events (deploys, pushes to the registry, edits)
                    \* and faults (registry changes, failing saves or inspections, exits)
                    \* may happen

AllTags == Tag \cup {FirstTag}

\* What runningImages records of a container: its tag, and which image that was.
Image == [tag : AllTags, id : Nat]

\* What an update offers: a newer tag, or another image under the same one.
Advertised == ({"tag"} \X AllTags) \cup ({"digest"} \X Nat)
ServiceUpdate == [running : AllTags, advertised : Advertised]

\* The locals of RunOnce.
CheckRun == [images : [Stack -> Image \cup {None}], todo : Seq(Stack),
             snap : [Stack -> ServiceUpdate \cup {None}], failed : SUBSET Stack, changed : BOOLEAN]

ASSUME UpdateAssumption ==
    /\ sortedKeys \in [SUBSET Stack -> Seq(Stack)]
    /\ \A S \in SUBSET Stack : ToSet(sortedKeys[S]) = S
    /\ maxTagsPages \in Nat \ {0}
    /\ Pinned \cap Built = {}
    /\ \A t \in AllTags : t.nums \in Seq(Nat)
    /\ None \notin Image \cup Advertised \cup ServiceUpdate \cup CheckRun

VARIABLES
    tags, digest,   \* the repository: its tags in order, and what each points at
    registry,       \* how the registry answers at the moment
    local,          \* the digest each tag has in the host's image store
    containers,     \* the image each stack's container really runs
    running,        \* Deployer.runningImagesNow, the image recorded for it
    included,       \* stacks in the effective set with update_check on
    hook,           \* a deploy run has published its results, its post-run hook is due
    ticker,         \* Run: "check" if a check is due, "wait" between ticks, "gone"
    comparing,      \* nudges before their comparison
    nudged,         \* nudges that found a change and go on to RunOnce
    check,          \* the check that holds runMu, or None
    lastRunning,    \* what the previous check ran over, or None
    notified,       \* the dedup record per stack: what was advertised, or None
    notifiedFile,   \* update-check.yaml
    snapshot,       \* the published markers, or None before the first check
    budget,         \* what may still happen
    \* ghosts
    told,           \* the update of each stack that stands and has been alerted
    unsaved         \* the last save failed

upstreamVars == <<tags, digest, registry>>
hostVars == <<local, containers, running, included, hook>>
nudgeVars == <<ticker, comparing, nudged>>
recordVars == <<notified, notifiedFile, told, unsaved>>
checkVars == <<check, lastRunning, snapshot>>
vars == <<upstreamVars, hostVars, nudgeVars, recordVars, checkVars, budget, transportVars>>

-----------------------------------------------------------------------------
(* The registry client.                                                    *)

\* A bearer realm must lie on the registry's own site, and it must give a token:
\* the host's docker login goes nowhere else.
checkRealm(r) == r.realm = "site"
fetchToken(r) == checkRealm(r) /\ r.token

\* Whether the retry after a 401 has an Authorization to carry: a fetched token, or
\* the docker login itself.
authorization(r) ==
    \/ r.challenge = "bearer" /\ fetchToken(r)
    \/ r.challenge = "basic" /\ r.login

\* One request, with at most one retry.
do(r) == r.up /\ (r.challenge = "none" \/ authorization(r))

\* The page a page links to, if it is not the last one: a link that leaves the
\* registry is refused.
nextPageURL(r, page) ==
    CASE page = Len(tags) -> None
      [] page < Len(tags) /\ r.link = "foreign" -> Error
      [] OTHER -> page + 1

\* The tags listing: page after page, one tag each, maxTagsPages at most.  A
\* refused link fails the listing, that of the last page read included.
Tags(r) ==
    LET pages == IF Len(tags) > maxTagsPages THEN maxTagsPages ELSE Len(tags)
    IN  IF do(r) /\ \A page \in 1..pages : nextPageURL(r, page) # Error
        THEN SubSeq(tags, 1, pages) ELSE Error

ManifestDigest(r, t) == IF do(r) THEN digest[t] ELSE Error

-----------------------------------------------------------------------------
(* Checker.checkService: Error, None, or the marker and what it offers.   *)

\* A digest-pinned reference carries its digest, else `docker image inspect` names
\* the digests of the local image with that tag, if it answers; a local build has
\* none.
localDigests(s, image, inspected) ==
    CASE s \in Pinned -> {image.id}
      [] s \notin Pinned /\ ~inspected -> Error
      [] s \in Built /\ inspected -> {}
      [] OTHER -> {local[image.tag]}

checkDigest(s, image, inspected) ==
    LET ids == localDigests(s, image, inspected)
        upstream == ManifestDigest(registry, image.tag)
    IN  CASE ids = {} -> None
          [] ids # {} /\ Error \in {ids, upstream} -> Error
          [] ids # {} /\ Error \notin {ids, upstream} /\ upstream \notin ids ->
                [running |-> image.tag, advertised |-> <<"digest", upstream>>]
          [] OTHER -> None

checkService(s, image, inspected) ==
    IF ~parseTagShape(image.tag) THEN checkDigest(s, image, inspected)
    ELSE LET listed == Tags(registry)
             latest == NewerTag(image.tag, listed)
         IN  CASE listed = Error -> Error
               [] listed # Error /\ latest # image.tag ->
                    [running |-> image.tag, advertised |-> <<"tag", latest>>]
               [] OTHER -> checkDigest(s, image, inspected)

-----------------------------------------------------------------------------
(* Checker.RunOnce, under runMu.                                           *)

NoMarkers == [s \in Stack |-> None]

Spend(kind) == budget[kind] > 0 /\ budget' = [budget EXCEPT ![kind] = @ - 1]
Event == Spend("events")
Fault == Spend("faults")

\* Run wants its first check at once, later ones on every tick.
Tick ==
    /\ ticker = "wait"
    /\ ticker' = IF stopping THEN "gone" ELSE "check"
    /\ UNCHANGED <<upstreamVars, hostVars, comparing, nudged, recordVars, checkVars, budget, transportVars>>

\* RunOnceIfChanged up to the unlock: compare and decide.
CompareRunning ==
    /\ comparing > 0 /\ check = None
    /\ comparing' = comparing - 1
    /\ nudged' = nudged + (IF lastRunning # None /\ lastRunning = running THEN 0 ELSE 1)
    /\ UNCHANGED <<upstreamVars, hostVars, ticker, recordVars, checkVars, budget, transportVars>>

\* The lock is taken and the running images are read once, for the whole check.
StartCheck(who) ==
    /\ check = None
    /\ \/ who = "ticker" /\ ticker = "check" /\ ticker' = "wait" /\ UNCHANGED nudged
       \/ who = "nudge" /\ nudged > 0 /\ nudged' = nudged - 1 /\ UNCHANGED ticker
    /\ check' = [images |-> running,
                 todo |-> sortedKeys[{s \in Stack : running[s] # None}],
                 snap |-> NoMarkers, failed |-> {}, changed |-> FALSE]
    /\ lastRunning' = running
    /\ told' = [s \in Stack |-> IF running[s] = None THEN None ELSE told[s]]
    /\ UNCHANGED <<upstreamVars, hostVars, comparing, notified, notifiedFile, unsaved, snapshot, budget, transportVars>>

\* What a check does with a service's result: an error makes no claim and keeps
\* the record, an update is marked, and alerted unless the record names it.
ApplyResult(s, result) ==
    LET rest == [check EXCEPT !.todo = Tail(@)]
        isNew == result.advertised # notified[s]
    IN  \/ /\ result = Error
           /\ check' = [rest EXCEPT !.failed = @ \cup {s}]
           /\ UNCHANGED <<notified, told, transportVars>>
        \/ /\ result = None
           /\ check' = rest
           /\ told' = [told EXCEPT ![s] = None]
           /\ UNCHANGED <<notified, transportVars>>
        \/ /\ result \notin {Error, None}
           /\ check' = [rest EXCEPT !.snap[s] = result, !.changed = @ \/ isNew]
           /\ told' = [told EXCEPT ![s] = result.advertised]
           /\ notified' = [notified EXCEPT ![s] = result.advertised]
           /\ IF isNew THEN push(<<s, result.advertised>>) ELSE UNCHANGED transportVars

\* One stack of the loop.  Include is asked now; docker may fail to name the local
\* digests; the request of a process that is shutting down fails, or was answered
\* just before.
CheckService ==
    /\ check # None /\ check.todo # <<>>
    /\ LET s == Head(check.todo)
       IN  \/ s \notin included
              /\ check' = [check EXCEPT !.todo = Tail(@)]
              /\ told' = [told EXCEPT ![s] = None]
              /\ UNCHANGED <<notified, budget, transportVars>>
           \/ /\ s \in included /\ UNCHANGED budget
              /\ \E result \in {checkService(s, check.images[s], TRUE)} : ApplyResult(s, result)
           \/ /\ s \in included /\ Fault
              /\ checkService(s, check.images[s], FALSE) = Error /\ ApplyResult(s, Error)
           \/ s \in included /\ stopping /\ UNCHANGED budget /\ ApplyResult(s, Error)
    /\ UNCHANGED <<upstreamVars, hostVars, nudgeVars, notifiedFile, unsaved, lastRunning, snapshot>>

\* Faulty variant: an errored check drops the record.
DroppedOnError(s) == notified[s] # None /\ check.snap[s] = None

\* Records of updates that no longer stand are dropped: applied, withdrawn, or no
\* longer ours to report.  An errored check keeps its record.
Done(s) == notified[s] # None /\ s \notin check.failed /\ check.snap[s] = None

\* Faulty variant: the images of the end of the check count as compared.
FinishMarksRunning ==
    /\ check # None /\ check.todo = <<>>
    /\ notified' = [s \in Stack |-> IF Done(s) THEN None ELSE notified[s]]
    /\ IF check.changed \/ \E s \in Stack : Done(s)
       THEN \/ notifiedFile' = notified' /\ unsaved' = FALSE /\ UNCHANGED budget
            \/ Fault /\ unsaved' = TRUE /\ UNCHANGED notifiedFile
       ELSE UNCHANGED <<notifiedFile, unsaved, budget>>
    /\ snapshot' = check.snap
    /\ check' = None
    /\ lastRunning' = running
    /\ UNCHANGED <<upstreamVars, hostVars, nudgeVars, told, transportVars>>

\* Faulty variant: a failed question keeps all markers of the last check.
FinishKeepsMarkers ==
    /\ check # None /\ check.todo = <<>>
    /\ notified' = [s \in Stack |-> IF Done(s) THEN None ELSE notified[s]]
    /\ IF check.changed \/ \E s \in Stack : Done(s)
       THEN \/ notifiedFile' = notified' /\ unsaved' = FALSE /\ UNCHANGED budget
            \/ Fault /\ unsaved' = TRUE /\ UNCHANGED notifiedFile
       ELSE UNCHANGED <<notifiedFile, unsaved, budget>>
    /\ snapshot' = IF check.failed # {} /\ snapshot # None THEN snapshot ELSE check.snap
    /\ check' = None
    /\ UNCHANGED <<upstreamVars, hostVars, nudgeVars, told, lastRunning, transportVars>>

\* The end of the loop: clean the records up, save them if they changed, publish
\* the markers, release the lock.
FinishCheck ==
    /\ check # None /\ check.todo = <<>>
    /\ notified' = [s \in Stack |-> IF Done(s) THEN None ELSE notified[s]]
    /\ IF check.changed \/ \E s \in Stack : Done(s)
       THEN \/ notifiedFile' = notified' /\ unsaved' = FALSE /\ UNCHANGED budget
            \/ Fault /\ unsaved' = TRUE /\ UNCHANGED notifiedFile
       ELSE UNCHANGED <<notifiedFile, unsaved, budget>>
    /\ snapshot' = check.snap
    /\ check' = None
    /\ UNCHANGED <<upstreamVars, hostVars, nudgeVars, told, lastRunning, transportVars>>

-----------------------------------------------------------------------------
(* The surroundings.                                                       *)

\* A deploy run brings stack s to tag t.  The image is pulled when the compose
\* file names another one than before; `read` is whether the read of what runs now
\* worked - without it the recorded image stays.
Deploy(s, t, read) ==
    LET pulled == containers[s] = None \/ containers[s].tag # t
        id == IF pulled THEN digest[t] ELSE local[t]
        image == [tag |-> t, id |-> id]
    IN  /\ Event /\ ~hook /\ ~stopping /\ t \in ToSet(tags)
        /\ local' = [local EXCEPT ![t] = id]
        /\ containers' = [containers EXCEPT ![s] = image]
        /\ running' = IF read THEN [running EXCEPT ![s] = image] ELSE running
        /\ hook' = TRUE
        /\ UNCHANGED <<upstreamVars, included, nudgeVars, recordVars, checkVars, transportVars>>

\* A run takes a stack down that was removed from the repository.
RemoveStack(s) ==
    /\ Event /\ ~hook /\ ~stopping /\ containers[s] # None
    /\ containers' = [containers EXCEPT ![s] = None]
    /\ running' = [running EXCEPT ![s] = None]
    /\ hook' = TRUE
    /\ UNCHANGED <<upstreamVars, local, included, nudgeVars, recordVars, checkVars, transportVars>>

\* The post-run hook starts a nudge on a goroutine of its own.
PostRunHook ==
    /\ hook
    /\ hook' = FALSE /\ comparing' = comparing + 1
    /\ UNCHANGED <<upstreamVars, local, containers, running, included, ticker, nudged, recordVars, checkVars, budget, transportVars>>

\* The host or the repository switches update_check of a stack, or parks it.
Toggle(s) ==
    /\ Event
    /\ included' = IF s \in included THEN included \ {s} ELSE included \cup {s}
    /\ UNCHANGED <<upstreamVars, local, containers, running, hook, nudgeVars, recordVars, checkVars, transportVars>>

\* The registry: a tag appears, is republished, or is withdrawn again.
Publish(t) ==
    /\ Event /\ t \notin ToSet(tags)
    /\ tags' = Append(tags, t)
    /\ UNCHANGED <<digest, registry, hostVars, nudgeVars, recordVars, checkVars, transportVars>>
Republish(t) ==
    /\ Event /\ t \in ToSet(tags)
    /\ digest' = [digest EXCEPT ![t] = @ + 1]
    /\ UNCHANGED <<tags, registry, hostVars, nudgeVars, recordVars, checkVars, transportVars>>
Withdraw(t) ==
    /\ Event /\ t \in ToSet(tags) /\ t # FirstTag
    /\ \A s \in Stack : containers[s] # None => containers[s].tag # t
    /\ \E k \in DOMAIN tags : tags[k] = t /\ tags' = RemoveAt(tags, k)
    /\ UNCHANGED <<digest, registry, hostVars, nudgeVars, recordVars, checkVars, transportVars>>
RegistryChanges ==
    /\ Fault
    /\ registry' \in registryAnswers \ {registry}
    /\ UNCHANGED <<tags, digest, hostVars, nudgeVars, recordVars, checkVars, transportVars>>

Shutdown ==
    /\ Fault /\ ShutdownSignal
    /\ UNCHANGED <<upstreamVars, hostVars, nudgeVars, recordVars, checkVars>>

\* The process ends, after a shutdown or out of the blue, and the next one starts
\* from its files: the recorded images come from the deploy state, the dedup
\* record from its own file.
Restart ==
    /\ IF stopping THEN UNCHANGED budget ELSE Fault
    /\ TransportRestart
    /\ hook' = FALSE /\ ticker' = "check" /\ comparing' = 0 /\ nudged' = 0
    /\ check' = None /\ lastRunning' = None /\ snapshot' = None
    /\ notified' = notifiedFile
    /\ told' = IF unsaved \/ (check # None /\ check.changed)
               THEN [s \in Stack |-> IF told[s] = notifiedFile[s] THEN told[s] ELSE None] ELSE told
    /\ unsaved' = FALSE
    /\ UNCHANGED <<upstreamVars, local, containers, running, included, notifiedFile>>

Alerter == UNCHANGED <<upstreamVars, hostVars, nudgeVars, recordVars, checkVars, budget>>
               /\ handle

-----------------------------------------------------------------------------
Init ==
    LET first == [s \in Stack |-> [tag |-> FirstTag, id |-> 0]]
    IN  /\ tags = <<FirstTag>> /\ digest = [t \in AllTags |-> 0]
        /\ registry \in registryAnswers
        /\ local = digest /\ containers = first /\ running = first
        /\ included = Stack /\ hook = FALSE
        /\ ticker = "check" /\ comparing = 0 /\ nudged = 0
        /\ check = None /\ lastRunning = None /\ snapshot = None
        /\ notified = NoMarkers /\ notifiedFile = NoMarkers /\ told = NoMarkers
        /\ unsaved = FALSE /\ budget \in Budgets
        /\ TransportInit

Checks == Tick \/ CompareRunning \/ (\E w \in {"ticker", "nudge"} : StartCheck(w))
              \/ CheckService \/ FinishCheck

Next ==
    \/ Checks \/ PostRunHook \/ Alerter
    \/ \E s \in Stack : RemoveStack(s) \/ Toggle(s) \/ \E t \in AllTags, read \in BOOLEAN : Deploy(s, t, read)
    \/ \E t \in AllTags : Publish(t) \/ Republish(t) \/ Withdraw(t)
    \/ RegistryChanges \/ Shutdown \/ Restart

Spec == Init /\ [][Next]_vars

\* The checker's goroutines get to run, whichever of them has the lock, and a
\* process that was told to stop is gone at some point.
FairSpec == Spec /\ WF_vars(Checks) /\ WF_vars(stopping /\ Restart)

-----------------------------------------------------------------------------
(* Properties.                                                             *)

Idle == check = None

\* An update is alerted once: a second alert for what was advertised last needs a
\* check in between that did not find it, or a restart that forgot it.  An outage
\* of the registry, a shutdown, a nudge beside the ticker: none of them repeats it.
AlertedOnce ==
    [][pushed' # pushed =>
            \E s \in Stack : told'[s] # told[s] /\ told'[s] # None]_vars

\* A marker never outlives its update: once the nudge of the last run is through,
\* no marker claims a stack runs something other than the recorded image, whatever
\* check was under way when the run ended.
MarkersFollowDeploys ==
    Idle /\ ~hook /\ comparing = 0 /\ nudged = 0 /\ snapshot # None =>
        \A s \in Stack : snapshot[s] # None =>
            running[s] # None /\ snapshot[s].running = running[s].tag

\* The suggestion is the newest listed version of the same shape: never another
\* variant, never a downgrade.
Upgrade(t, u) ==
    /\ t.nums # <<>> /\ t.prefix = u.prefix /\ t.suffix = u.suffix /\ Len(t.nums) = Len(u.nums)
    /\ \E i \in DOMAIN t.nums :
            t.nums[i] < u.nums[i] /\ SubSeq(t.nums, 1, i - 1) = SubSeq(u.nums, 1, i - 1)
NewestSuggested ==
    \A t \in ToSet(tags) :
        LET upgrades == {u \in ToSet(tags) : Upgrade(t, u)}
            suggested == NewerTag(t, tags)
        IN  IF upgrades = {} THEN suggested = t
            ELSE suggested \in upgrades /\ ~\E u \in upgrades : Upgrade(suggested, u)

\* Every registry that answers at all is eventually reported on: in the end the
\* markers are exactly what a check of each included stack would conclude.
Conclusion(s) ==
    LET result == checkService(s, running[s], TRUE)
    IN  IF s \notin included \/ running[s] = None \/ result = Error THEN None ELSE result
MarkersSettle == <>[](snapshot = [s \in Stack |-> Conclusion(s)])

=============================================================================
