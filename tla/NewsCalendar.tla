---------------------------- MODULE NewsCalendar ----------------------------
(* The economic calendar and the no-trade zones made of it: the sync that     *)
(* fetches, imports and reconciles the official calendar, the requests of a   *)
(* user that change settings and events, and the two commits each needs, one  *)
(* for the event or the settings and one for the zones.                       *)
(*                                                                            *)
(* A release belongs to a source of its own: to one of the official sources,  *)
(* which the sync requires, or to the optional one, which may fail without    *)
(* making the sync partial.  The external id of an automatic event is its     *)
(* release and its official time, so that a release that is moved is another  *)
(* event.  The settings are what they do to an event.                         *)
EXTENDS Integers, FiniteSets

CONSTANTS
  Releases,      \* releases
  Optional,      \* those of them that only the optional source knows
  Rules,         \* settings: "exclude" filters the events out, others make zones
  LastTime,      \* bound of the clock and of the times
  Horizon,       \* how far ahead a sync looks (days_ahead)
  MaxChanges,    \* bound: requests of the user, moved releases, crashes
  MaxFailures    \* bound: fetches with a source that fails or answers with nothing
ASSUME OptionalAssumption == Optional \subseteq Releases
Times == 1..LastTime
Manual == <<"manual">>
Legacy == <<"finnhub">>   \* an event of the provider that was replaced

VARIABLES
  clock,
  official,   \* time of a release in the calendar of its source
  settings,   \* row of the news settings
  rows,       \* table news_events
  zones,      \* table no_trade_zones; "by" tells apart equal rows of two writers
  writer,     \* the sync and the request of the user
  changes, failures
newsVars == <<clock, official, settings, rows, zones, writer, changes, failures>>

\* generate_zones_for_event and regenerate_zones make the same zone of an event.
NewZones(S, rule, w) ==
  {[event |-> e.id, time |-> e.time, rule |-> rule, by |-> w] : e \in IF rule = "exclude" THEN {} ELSE S}

Nothing == [at |-> "idle", known |-> "exclude", start |-> 1, failed |-> {}, raw |-> {}, todo |-> {},
            seen |-> {}, read |-> {}]
NewsInit ==
  /\ clock = 1 /\ official \in [Releases -> Times] /\ settings \in Rules
  /\ \/ rows = {}
     \/ \E t \in Times : rows = {[id |-> Legacy, time |-> t]}
  /\ zones = NewZones(rows, settings, "user") /\ changes = 0 /\ failures = 0
  /\ writer = [w \in {"sync", "user"} |-> Nothing]

Change == changes < MaxChanges /\ changes' = changes + 1
Exists(id) == \E e \in rows : e.id = id
Saved(id, time) == {e \in rows : e.id # id} \cup {[id |-> id, time |-> time]}
ZonesOf(S) == {z \in zones : z.event \in S}
Is(w, at) == writer[w].at = at

----------------------------------------------------------------------------
(* Second commits: the zones the writer saw are replaced by those it makes of *)
(* what it read, unless the event of one is gone (the foreign key).           *)

Replace(w) ==
  IF \A e \in writer[w].read : Exists(e.id)
  THEN zones' = (zones \ writer[w].seen) \cup NewZones(writer[w].read, writer[w].known, w)
  ELSE UNCHANGED zones

\* The zones of one event ...
CommitZones(w) ==
  /\ Is(w, "zoning") /\ Replace(w)
  /\ writer' = [writer EXCEPT ![w] =
       IF w = "user" THEN Nothing
       ELSE [@ EXCEPT !.at = "import", !.seen = {}, !.read = {},
                      !.known = IF \A e \in writer[w].read : Exists(e.id) THEN @ ELSE settings]]
  /\ UNCHANGED <<clock, official, settings, rows, changes, failures>>

\* ... or all of them.
BeginRegeneration(w) ==
  /\ Is(w, "stale")
  /\ writer' = [writer EXCEPT ![w].at = "regenerating", ![w].seen = zones, ![w].read = rows]
  /\ UNCHANGED <<clock, official, settings, rows, zones, changes, failures>>
CommitRegeneration(w) ==
  /\ Is(w, "regenerating") /\ Replace(w)
  /\ writer' = [writer EXCEPT ![w] = Nothing]
  /\ UNCHANGED <<clock, official, settings, rows, changes, failures>>

----------------------------------------------------------------------------
(* sync_provider.  Its session keeps the settings it read first.              *)

StartSync ==
  /\ Is("sync", "idle")
  /\ writer' = [writer EXCEPT !["sync"] = [Nothing EXCEPT !.at = "fetch", !.known = settings, !.start = clock]]
  /\ UNCHANGED <<clock, official, settings, rows, zones, changes, failures>>

\* What lies in the window of the sync.
Ahead(time) == time >= writer["sync"].start /\ time <= writer["sync"].start + Horizon

\* Without any official source the sync is recorded as failed.  The page of a
\* source may hold nothing that is understood, and count as answered.
Fetch ==
  /\ Is("sync", "fetch")
  /\ \E failed, silent \in SUBSET Releases :
       LET good == Releases \ (failed \cup silent)
           raw == {<<r, official[r]>> : r \in {q \in good : Ahead(official[q])}}
       IN /\ failed \cap silent = {}
          /\ good # Releases => failures < MaxFailures
          /\ failures' = failures + (IF good = Releases THEN 0 ELSE 1)
          /\ writer' = [writer EXCEPT !["sync"] =
               IF Releases \ Optional \subseteq failed THEN Nothing
               ELSE [@ EXCEPT !.at = "import", !.failed = failed, !.raw = raw,
                              !.todo = IF writer["sync"].known = "exclude" THEN {} ELSE raw]]
  /\ UNCHANGED <<clock, official, settings, rows, zones, changes>>

\* create_event: an event with that external id is set to its time again.
ImportEvent ==
  /\ Is("sync", "import")
  /\ \E e \in writer["sync"].todo :
       /\ rows' = Saved(e, e[2])
       /\ writer' = [writer EXCEPT !["sync"].at = "zoning", !["sync"].todo = @ \ {e}, !["sync"].seen = ZonesOf({e}),
                                   !["sync"].read = {[id |-> e, time |-> e[2]]}]
  /\ UNCHANGED <<clock, official, settings, zones, changes, failures>>

Expected == IF writer["sync"].known = "exclude" THEN {} ELSE writer["sync"].raw
StaleLater == {e \in rows : e.id # Manual /\ e.time > writer["sync"].start /\ Ahead(e.time) /\ e.id \notin Expected}   \* (a mutant)
Stale == {e \in rows : e.id # Manual /\ Ahead(e.time) /\ e.id \notin Expected}
SafeWithAnySource == TRUE   \* (a mutant)
SafeToReconcile == writer["sync"].failed \subseteq Optional

\* Events of the replaced provider in the window go with the stale ones.
Reconcile ==
  /\ Is("sync", "import") /\ writer["sync"].todo = {}
  /\ IF SafeToReconcile /\ Stale # {}
     THEN /\ rows' = rows \ Stale /\ zones' = zones \ ZonesOf({e.id : e \in Stale})
          /\ writer' = [writer EXCEPT !["sync"].at = "stale"]
     ELSE writer' = [writer EXCEPT !["sync"] = Nothing] /\ UNCHANGED <<rows, zones>>
  /\ UNCHANGED <<clock, official, settings, changes, failures>>

----------------------------------------------------------------------------
(* Requests of the user. *)

PatchSettings(rule) ==
  /\ Is("user", "idle") /\ Change /\ rule # settings /\ settings' = rule
  /\ writer' = [writer EXCEPT !["user"].at = "stale", !["user"].known = rule]
  /\ UNCHANGED <<clock, official, rows, zones, failures>>

\* An event of his own, or one that is there, gets a time.
SaveEvent(id, time) ==
  /\ Is("user", "idle") /\ Change /\ (id = Manual \/ Exists(id))
  /\ rows' = Saved(id, time)
  /\ writer' = [writer EXCEPT !["user"].at = "zoning", !["user"].known = settings, !["user"].seen = ZonesOf({id}),
                              !["user"].read = {[id |-> id, time |-> time]}]
  /\ UNCHANGED <<clock, official, settings, zones, failures>>

DeleteEvent(e) ==
  /\ Is("user", "idle") /\ Change /\ rows' = rows \ {e} /\ zones' = zones \ ZonesOf({e.id})
  /\ UNCHANGED <<clock, official, settings, writer, failures>>

----------------------------------------------------------------------------
Hour == clock < LastTime /\ clock' = clock + 1
        /\ UNCHANGED <<official, settings, rows, zones, writer, changes, failures>>
Reschedule(r, t) == /\ Change /\ official[r] # t /\ official' = [official EXCEPT ![r] = t]
                    /\ UNCHANGED <<clock, settings, rows, zones, writer, failures>>
RestartApi == /\ Change /\ \E w \in DOMAIN writer : ~Is(w, "idle")
              /\ writer' = [w \in DOMAIN writer |-> Nothing]
              /\ UNCHANGED <<clock, official, settings, rows, zones, failures>>

SyncStep == StartSync \/ Fetch \/ ImportEvent \/ Reconcile
ZoneStep(w) == CommitZones(w) \/ BeginRegeneration(w) \/ CommitRegeneration(w)
NewsNext ==
  \/ Hour \/ SyncStep \/ RestartApi
  \/ \E w \in DOMAIN writer : ZoneStep(w)
  \/ \E rule \in Rules : PatchSettings(rule)
  \/ \E t \in Times, id \in {Manual} \cup {e.id : e \in rows} : SaveEvent(id, t)
  \/ \E e \in rows : DeleteEvent(e)
  \/ \E r \in Releases, t \in Times : Reschedule(r, t)

----------------------------------------------------------------------------
(* Once nothing changes any more, every release of the days ahead has exactly *)
(* the zone of its official time under the settings of now, and none of       *)
(* another time, and no event of the replaced provider lies ahead, whatever   *)
(* was moved, failed, ended by a restart or written by two at a time.         *)
Coming(time) == time >= clock /\ time <= clock + Horizon
Pending(r) == {e.id : e \in {f \in rows : f.id[1] = r /\ Coming(f.time)}}
Plain(S) == {<<z.event, z.time, z.rule>> : z \in S}
ReleaseIsRight(r) ==
  LET id == <<r, official[r]>>
      due == IF settings = "exclude" \/ ~Coming(official[r]) THEN {} ELSE {<<id, official[r], settings>>}
  IN /\ Plain(ZonesOf(Pending(r))) = due
     /\ Cardinality(ZonesOf(Pending(r))) = Cardinality(due)
LegacyIsGone == \A e \in rows : e.id = Legacy => ~Coming(e.time)
CalendarSettles == <>[](LegacyIsGone /\ \A r \in Releases : ReleaseIsRight(r))

(* An event goes only when the user deletes it, or when it lies in the window *)
(* of a sync that every official source answered and that did not find it; an *)
(* event of the user never goes, nor one that is past or beyond the window.   *)
NothingElseIsErased ==
  [][\A e \in rows : e.id \notin {f.id : f \in rows'} =>
       \/ \E g \in rows : g.id = e.id /\ DeleteEvent(g)
       \/ /\ e.id # Manual /\ writer["sync"].failed \subseteq Optional /\ Is("sync", "import")
          /\ Ahead(e.time)
          /\ writer["sync"].known = "exclude" \/ e.id \notin writer["sync"].raw]_newsVars

\* The same, and nothing is erased after a source has failed.  It does not
\* hold: an event that only the optional source has goes when that one fails.
NothingErasedAfterFailure ==
  [][\A e \in rows : e.id \notin {f.id : f \in rows'} =>
       (\E g \in rows : g.id = e.id /\ DeleteEvent(g)) \/ writer["sync"].failed = {}]_newsVars

\* The same of the event of a user.  It does not hold: a sync that began
\* before the settings were changed makes its zone with the old ones.
ManualZoneSettles ==
  <>[](\A e \in rows : e.id = Manual =>
         Plain(ZonesOf({Manual})) = (IF settings = "exclude" THEN {} ELSE {<<Manual, e.time, settings>>}))
=============================================================================
