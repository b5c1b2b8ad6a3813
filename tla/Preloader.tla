----------------------------- MODULE Preloader -----------------------------
(***************************************************************************)
(* The image preloader (pkg/preloader): a list of images, and the daemon   *)
(* set whose init containers pull them on every node.  Every operation     *)
(* changes the list first and brings the daemon set up to date afterwards, *)
(* so that a failed API call leaves the two apart.  A preloader is used by *)
(* one goroutine.                                                          *)
(***************************************************************************)
EXTENDS Naturals, Sequences, FiniteSets, SequencesExt

CONSTANTS
  Images,     \* the images a test suite may ask for
  None        \* no daemon set

ASSUME NoneAssumption == None \notin Seq(Images)

VARIABLES
  images,     \* Preloader.Images
  daemonSet,  \* the images of the daemon set's init containers, or None
  result,     \* what the last operation returned
  wanted,     \* history: images whose AddImage returned no error, not taken back since
  disturbed   \* history: the last operation but AddImage of a listed image has failed,
              \* or was Cleanup

vars == <<images, daemonSet, result, wanted, disturbed>>

\* What New returns; that it takes a name for good is in module Names.
Init == images = <<>> /\ daemonSet = None /\ result = "ok" /\ wanted = {} /\ disturbed = FALSE

-----------------------------------------------------------------------------

\* An API call that fails on its way has its effect or has none.
DeleteDaemonSet ==
  \/ /\ daemonSet # None /\ daemonSet' = None
     /\ result' \in {"ok", "error"}
  \/ UNCHANGED daemonSet /\ result' = "error"

CreateDaemonSet(list) ==
  \/ /\ daemonSet = None /\ daemonSet' = list
     /\ result' \in {"ok", "error"}
  \/ UNCHANGED daemonSet /\ result' = "error"

UpdateDaemonSet(list) ==
  \/ /\ daemonSet # None /\ daemonSet' = list
     /\ result' \in {"ok", "error"}
  \/ UNCHANGED daemonSet /\ result' = "error"

\* Mutant: an existing daemon set is not updated.
PreloadOnce(list) ==
  /\ IF list = <<>> THEN DeleteDaemonSet
     ELSE IF daemonSet = None THEN CreateDaemonSet(list)
     ELSE UNCHANGED daemonSet /\ result' = "ok"
  /\ disturbed' = (result' = "error")

preloadImages(list) ==
  /\ IF list = <<>> THEN DeleteDaemonSet
     ELSE IF daemonSet = None THEN CreateDaemonSet(list)
     ELSE UpdateDaemonSet(list)
  /\ disturbed' = (result' = "error")

-----------------------------------------------------------------------------

\* An image that is in the list is not added, and not preloaded, again.
AddImage(i) ==
  IF i \in ToSet(images)
  THEN /\ result' = "ok"
       /\ wanted' = wanted \cup {i}
       /\ UNCHANGED <<images, daemonSet, disturbed>>
  ELSE /\ images' = Append(images, i)
       /\ preloadImages(images')
       /\ wanted' = IF result' = "ok" THEN wanted \cup {i} ELSE wanted

\* The loop of RemoveImage, which cuts the list it ranges over: no image is listed
\* twice, so that it cuts once at most.
Cut(i) ==
  \/ i \notin ToSet(images) /\ UNCHANGED images
  \/ \E k \in DOMAIN images : images[k] = i /\ images' = RemoveAt(images, k)

\* Mutant: the daemon set is brought up to date before the image is removed.
RemoveLater(i) ==
  /\ Cut(i)
  /\ preloadImages(images)
  /\ wanted' = wanted \ {i}

RemoveImage(i) ==
  /\ Cut(i)
  /\ preloadImages(images')
  /\ wanted' = wanted \ {i}

EmptyImages ==
  /\ images' = <<>>
  /\ preloadImages(images')
  /\ wanted' = {}

\* The list stays as it is.
Cleanup ==
  /\ DeleteDaemonSet
  /\ wanted' = {}
  /\ disturbed' = TRUE
  /\ UNCHANGED images

Next ==
  \/ \E i \in Images : AddImage(i) \/ RemoveImage(i)
  \/ EmptyImages
  \/ Cleanup

Spec == Init /\ [][Next]_vars

-----------------------------------------------------------------------------

\* An operation that changes the list and returns no error leaves the daemon set
\* with exactly that list, whatever failed before it: failures heal.
FailuresHeal ==
  [][images' # images /\ result' = "ok" =>
       daemonSet' = IF images' = <<>> THEN None ELSE images']_vars

\* "A preloader makes sure that the images are preloaded before the test suite starts":
\* an image whose AddImage returned no error is in the daemon set, unless an operation
\* has just failed or Cleanup was called.  Then AddImage of an image that is in the
\* list returns no error and preloads nothing.
WantedIsPreloaded ==
  wanted # {} /\ ~disturbed => daemonSet # None /\ wanted \subseteq ToSet(daemonSet)
=============================================================================
