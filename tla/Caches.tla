------------------------------- MODULE Caches -------------------------------
(***************************************************************************)
(* The two caches of the web server whose loads run off the request path:  *)
(* StaleWhileRevalidate (crates/api/src/ttl_cache.rs), used by the polled  *)
(* read endpoints, and SizeCache (usb_gadget/src/reflink.rs) with its      *)
(* users in crates/api/src/snapshots.rs.  Both publish a load only when no *)
(* invalidation came after it started, told apart by a generation.         *)
(***************************************************************************)
EXTENDS Naturals, FiniteSets

CONSTANTS Requests,     \* requests to the polled endpoint
          Keys,         \* cache keys
          SnapNames,    \* slot names of snapshots: reused after a deletion
          MaxClears,    \* bound: invalidations of the TTL cache
          MaxImages     \* bound: snapshot images ever made

ASSUME CacheAssumption ==
  /\ MaxClears \in Nat /\ MaxImages \in Nat
  /\ "none" \notin Keys /\ "task" \notin Requests /\ "nobody" \notin Requests

(* A TTL cache is cleared by the handler that changed the data, after the  *)
(* change, so the data's version is the number of changes.                 *)
VARIABLES
  data,        \* version of the data the loads read
  cleared,     \* version of the data at the last clear()
  ttl,         \* the cache: generation and slot
  flight,      \* the load that holds the single-flight lock, and who awaits it
  req,         \* req[r]: where request r stands
  image,       \* image[n]: the image behind slot name n, 0 when there is none
  images,      \* images made so far
  inode,       \* inode[n]: the inode number of the file behind n, 0 when there is none
  mistaken,    \* names whose image the identity check takes for an earlier one
  sizes,       \* the SizeCache
  listing,     \* a GET /api/snapshots that has read the directory
  measuring,   \* the measurement in flight
  deleting,    \* DELETEs whose release is done and whose invalidation is not
  deletions    \* API deletions that were answered

ttlVars == <<data, cleared, ttl, flight, req>>
sizeVars == <<image, images, inode, mistaken, sizes, listing, measuring, deleting, deletions>>
fileVars == <<image, images, inode, mistaken>>
cacheVars == <<data, cleared, ttl, flight, req, image, images, inode, mistaken,
               sizes, listing, measuring, deleting, deletions>>

NoSlot == [key |-> "none", fresh |-> FALSE, value |-> 0]
NoFlight == [by |-> "nobody", key |-> "none", gen |-> 0, value |-> 0]
Resting == [pc |-> "idle", key |-> "none", since |-> 0, value |-> 0]
NoFigures == [n \in SnapNames |-> 0]
NoSizes == [of |-> NoFigures, id |-> NoFigures, at |-> 0, ids |-> {}, done |-> FALSE]
NoMeasure == [on |-> FALSE, ids |-> {}, gen |-> 0, of |-> NoFigures, id |-> NoFigures, at |-> 0]

CacheInit ==
  /\ data = 1 /\ cleared = 1
  /\ ttl = [gen |-> 0, slot |-> NoSlot]
  /\ flight = NoFlight
  /\ req = [r \in Requests |-> Resting]
  /\ image = NoFigures /\ images = 0
  /\ inode = NoFigures /\ mistaken = {}
  /\ sizes = [gen |-> 0, kept |-> NoSizes]
  /\ listing = [on |-> FALSE, ids |-> {}, shown |-> NoFigures, at |-> 0]
  /\ measuring = NoMeasure
  /\ deleting = 0 /\ deletions = 0

-----------------------------------------------------------------------------
(* StaleWhileRevalidate.  A request that needs no load answers in one      *)
(* step; "since" is what was cleared when the request came in.             *)

Fresh(k) == ttl.slot.key = k /\ ttl.slot.fresh
Stale(k) == ttl.slot.key = k

Request(r, pc, k, v) ==
  req' = [req EXCEPT ![r] = [pc |-> pc, key |-> k, since |-> cleared, value |-> v]]

GetFresh(r, k) ==
  /\ req[r].pc = "idle" /\ Fresh(k)
  /\ Request(r, "answered", k, ttl.slot.value)
  /\ UNCHANGED <<data, cleared, ttl, flight, sizeVars>>

(* A stale value is served at once; a refresh task is started unless a     *)
(* load is in flight.                                                      *)
GetStale(r, k) ==
  /\ req[r].pc = "idle" /\ ~Fresh(k) /\ Stale(k)
  /\ flight' = IF flight = NoFlight
               THEN [by |-> "task", key |-> k, gen |-> ttl.gen, value |-> 0] ELSE flight
  /\ Request(r, "answered", k, ttl.slot.value)
  /\ UNCHANGED <<data, cleared, ttl, sizeVars>>

GetCold(r, k) ==
  /\ req[r].pc = "idle" /\ ~Stale(k)
  /\ Request(r, "waiting", k, 0)
  /\ UNCHANGED <<data, cleared, ttl, flight, sizeVars>>

Answer(r, v) == req' = [req EXCEPT ![r].pc = "answered", ![r].value = v]

(* Cold misses queue on the lock and look again when they get it.          *)
ColdTurn(r) ==
  /\ req[r].pc = "waiting" /\ flight = NoFlight
  /\ IF Fresh(req[r].key)
     THEN Answer(r, ttl.slot.value) /\ UNCHANGED flight
     ELSE /\ flight' = [by |-> r, key |-> req[r].key, gen |-> ttl.gen, value |-> 0]
          /\ UNCHANGED req
  /\ UNCHANGED <<data, cleared, ttl, sizeVars>>

Load ==
  /\ flight # NoFlight /\ flight.value = 0
  /\ flight' = [flight EXCEPT !.value = data]
  /\ UNCHANGED <<data, cleared, ttl, req, sizeVars>>

(* A failed load changes nothing in the cache; a cold request gets None.   *)
LoadFails ==
  /\ flight # NoFlight /\ flight.value = 0
  /\ req' = IF flight.by = "task" THEN req ELSE [req EXCEPT ![flight.by] = Resting]
  /\ flight' = NoFlight
  /\ UNCHANGED <<data, cleared, ttl, sizeVars>>

Loaded == [key |-> flight.key, fresh |-> TRUE, value |-> flight.value]

(* The value is stored whatever happened since the load began.             *)
StoreIfCurrent_Always ==
  /\ flight.value # 0
  /\ ttl' = [ttl EXCEPT !.slot = Loaded]
  /\ IF flight.by = "task" THEN UNCHANGED req ELSE Answer(flight.by, flight.value)
  /\ flight' = NoFlight
  /\ UNCHANGED <<data, cleared, sizeVars>>

StoreIfCurrent ==
  /\ flight.value # 0
  /\ ttl' = IF ttl.gen = flight.gen THEN [ttl EXCEPT !.slot = Loaded] ELSE ttl
  /\ IF flight.by = "task" THEN UNCHANGED req ELSE Answer(flight.by, flight.value)
  /\ flight' = NoFlight
  /\ UNCHANGED <<data, cleared, sizeVars>>

NextRequest(r) ==
  /\ req[r].pc = "answered"
  /\ req' = [req EXCEPT ![r] = Resting]
  /\ UNCHANGED <<data, cleared, ttl, flight, sizeVars>>

Expire ==
  /\ ttl.slot.fresh
  /\ ttl' = [ttl EXCEPT !.slot.fresh = FALSE]
  /\ UNCHANGED <<data, cleared, flight, req, sizeVars>>

Change ==
  /\ data <= MaxClears
  /\ data' = data + 1
  /\ UNCHANGED <<cleared, ttl, flight, req, sizeVars>>

Clear ==
  /\ cleared < data
  /\ cleared' = data
  /\ ttl' = [gen |-> ttl.gen + 1, slot |-> NoSlot]
  /\ UNCHANGED <<data, flight, req, sizeVars>>

-----------------------------------------------------------------------------
(* SizeCache.  A figure is kept per slot name, under the name it was       *)
(* measured by ("of": the image it was measured on), with the identity     *)
(* ("id") of the file behind that name when the extents had been read.     *)

Names == {n \in SnapNames : image[n] # 0}

(* The files between whose two reads the measurement stands.               *)
HalfRead == {n \in measuring.ids : measuring.of[n] # 0 /\ measuring.id[n] = 0}

(* An image gets an inode number that no file has: a new one (named after  *)
(* the image) or that of a file which is gone.  It is mistaken for an      *)
(* earlier image of its name if it got the number that a measurement noted *)
(* for that one, or comes between the two reads of its name.               *)
MakeImage(n) ==
  /\ image[n] = 0 /\ images < MaxImages
  /\ images' = images + 1
  /\ image' = [image EXCEPT ![n] = images + 1]
  /\ \E i \in (1..images + 1) \ {inode[m] : m \in SnapNames} :
       /\ inode' = [inode EXCEPT ![n] = i]
       /\ mistaken' = IF i \in {sizes.kept.id[n], measuring.id[n]} \/ n \in HalfRead
                      THEN mistaken \cup {n} ELSE mistaken
  /\ UNCHANGED <<ttlVars, sizes, listing, measuring, deleting, deletions>>

Gone(n) ==
  /\ image' = [image EXCEPT ![n] = 0] /\ inode' = [inode EXCEPT ![n] = 0]
  /\ mistaken' = mistaken \ {n}

(* The free-space manager, or make_snapshot discarding a duplicate: it     *)
(* tells the web server nothing.                                           *)
OthersRelease(n) ==
  /\ image[n] # 0
  /\ Gone(n)
  /\ UNCHANGED <<ttlVars, images, sizes, listing, measuring, deleting, deletions>>

DeleteSnapshot(n) ==
  /\ image[n] # 0
  /\ Gone(n)
  /\ deleting' = deleting + 1
  /\ UNCHANGED <<ttlVars, images, sizes, listing, measuring, deletions>>

Invalidate ==
  /\ deleting > 0
  /\ sizes' = [gen |-> sizes.gen + 1, kept |-> NoSizes]
  /\ deleting' = deleting - 1 /\ deletions' = deletions + 1
  /\ UNCHANGED <<ttlVars, fileVars, listing, measuring>>

ReadDirectory ==
  /\ ~listing.on
  /\ listing' = [on |-> TRUE, ids |-> Names, shown |-> NoFigures, at |-> deletions]
  /\ UNCHANGED <<ttlVars, fileVars, sizes, measuring, deleting, deletions>>

IsCurrentFor(ids) == sizes.kept.done /\ sizes.kept.ids = ids

(* The figure that was kept for the name, whatever is behind it now.       *)
GetIfSame_AnyFile(n) == IF image[n] # 0 THEN sizes.kept.of[n] ELSE 0

(* The figure that was kept for the name, if the file behind it still has  *)
(* the identity that was noted.                                            *)
GetIfSame(n) ==
  IF image[n] # 0 /\ sizes.kept.id[n] = inode[n] THEN sizes.kept.of[n] ELSE 0

(* Under the cache's mutex: the figures of a current measurement are       *)
(* shown, else a measurement is started unless one is in flight.           *)
ListSnapshots ==
  /\ listing.on
  /\ IF IsCurrentFor(listing.ids)
     THEN listing' = [listing EXCEPT !.on = FALSE, !.ids = {},
                        !.shown = [n \in SnapNames |->
                                     IF n \in listing.ids THEN GetIfSame(n) ELSE 0],
                        !.at = sizes.kept.at]
     ELSE listing' = [listing EXCEPT !.on = FALSE, !.ids = {}]
  /\ measuring' = IF IsCurrentFor(listing.ids) \/ listing.ids = {} \/ measuring.on
                  THEN measuring
                  ELSE [NoMeasure EXCEPT !.on = TRUE, !.ids = listing.ids, !.gen = sizes.gen,
                                         !.at = deletions]
  /\ UNCHANGED <<ttlVars, fileVars, sizes, deleting, deletions>>

(* One file after the other, first its extents are read by its name, then  *)
(* its identity; a file that is gone at either fails the measurement.      *)
Measure(n) ==
  /\ measuring.on /\ n \in measuring.ids /\ measuring.of[n] = 0 /\ image[n] # 0
  /\ HalfRead = {}
  /\ measuring' = [measuring EXCEPT !.of[n] = image[n]]
  /\ UNCHANGED <<ttlVars, fileVars, sizes, listing, deleting, deletions>>

Identify(n) ==
  /\ measuring.on /\ n \in HalfRead /\ image[n] # 0
  /\ measuring' = [measuring EXCEPT !.id[n] = inode[n]]
  /\ UNCHANGED <<ttlVars, fileVars, sizes, listing, deleting, deletions>>

Complete == \A n \in measuring.ids : measuring.id[n] # 0

SizesKept(ok) ==
  [of |-> IF ok THEN measuring.of ELSE NoFigures, id |-> IF ok THEN measuring.id ELSE NoFigures,
   at |-> measuring.at, ids |-> measuring.ids, done |-> TRUE]

(* One unreadable image fails the whole measurement, which is then kept as *)
(* an attempt without figures.                                             *)
Publish(ok) ==
  /\ measuring.on /\ (ok => Complete)
  /\ sizes' = IF measuring.gen = sizes.gen THEN [sizes EXCEPT !.kept = SizesKept(ok)] ELSE sizes
  /\ measuring' = NoMeasure
  /\ UNCHANGED <<ttlVars, fileVars, listing, deleting, deletions>>

SizesExpire ==
  /\ sizes.kept.done
  /\ sizes' = [sizes EXCEPT !.kept.done = FALSE]
  /\ UNCHANGED <<ttlVars, fileVars, listing, measuring, deleting, deletions>>

TtlNext ==
  \/ \E r \in Requests :
       \/ \E k \in Keys : GetFresh(r, k) \/ GetStale(r, k) \/ GetCold(r, k)
       \/ ColdTurn(r) \/ NextRequest(r)
  \/ Load \/ LoadFails \/ StoreIfCurrent \/ Expire \/ Change \/ Clear

SizeNext ==
  \/ \E n \in SnapNames :
       MakeImage(n) \/ OthersRelease(n) \/ DeleteSnapshot(n)
       \/ Measure(n) \/ Identify(n)
  \/ Invalidate \/ ReadDirectory \/ ListSnapshots \/ (\E ok \in BOOLEAN : Publish(ok))
  \/ SizesExpire

CacheSpec == CacheInit /\ [][TtlNext \/ SizeNext]_cacheVars

-----------------------------------------------------------------------------
(* Nobody who asks after a change was made known (clear) is answered with  *)
(* data from before it, although loads that began earlier end later: not   *)
(* from the slot, not by waiting for another request's load.               *)
AnswersFollowClears ==
  \A r \in Requests : req[r].pc = "answered" => req[r].value >= req[r].since

(* A figure on the snapshot page was measured on the image that is behind  *)
(* that name now, and after the last deletion that was answered when the   *)
(* figure was read, although names are reused, other programs release      *)
(* images, and a measurement may end after a deletion.  The exceptions are *)
(* the images an inode number cannot tell apart: one that got the number   *)
(* noted for an earlier image of its name, and one made between the reads. *)
FiguresMatchImages ==
  [][\A n \in SnapNames :
       listing.on /\ ~listing'.on /\ listing'.shown[n] # 0 =>
         /\ listing'.shown[n] = image[n] \/ n \in mistaken
         /\ listing'.at = deletions]_cacheVars
=============================================================================
