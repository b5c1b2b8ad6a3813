--------------------------- MODULE PreloaderProofs ---------------------------
(***************************************************************************)
(* Proofs about module Preloader, for any set of images.                   *)
(***************************************************************************)
EXTENDS Preloader, SequenceTheorems, TLAPS

\* AddImage looks before it appends.
ListedOnce ==
  \A k, l \in DOMAIN images : images[k] = images[l] => k = l

\* The daemon set of a list that preloadImages has dealt with.
Deployed(list) == IF list = <<>> THEN None ELSE list

PreloaderInv ==
  /\ images \in Seq(Images)
  /\ ListedOnce
  /\ wanted \subseteq ToSet(images)
  /\ disturbed \in BOOLEAN
  /\ ~disturbed => daemonSet = Deployed(images)

-----------------------------------------------------------------------------
(* The list *)

LEMMA AppendList ==
  ASSUME NEW s \in Seq(Images), NEW i \in Images
  PROVE  /\ Append(s, i) \in Seq(Images)
         /\ ToSet(Append(s, i)) = ToSet(s) \cup {i}
<1>1. /\ Append(s, i) \in Seq(Images) /\ Len(Append(s, i)) = Len(s) + 1
      /\ \A k \in 1..Len(s) : Append(s, i)[k] = s[k]
      /\ Append(s, i)[Len(s) + 1] = i
  OBVIOUS
<1> QED BY <1>1 DEF ToSet

\* What RemoveImage leaves of its list, element by element.
LEMMA CutList ==
  ASSUME NEW s \in Seq(Images), NEW k \in DOMAIN s
  PROVE  LET t == RemoveAt(s, k)
         IN  /\ t \in Seq(Images)
             /\ DOMAIN t = 1..(Len(s) - 1)
             /\ \A l \in 1..(Len(s) - 1) : t[l] = IF l < k THEN s[l] ELSE s[l + 1]
<1> DEFINE a == SubSeq(s, 1, k - 1)
           b == SubSeq(s, k + 1, Len(s))
<1>1. k \in 1..Len(s) /\ Len(s) \in Nat
  OBVIOUS
<1>2. a \in Seq(Images) /\ Len(a) = k - 1 /\ \A l \in 1..(k - 1) : a[l] = s[l]
  BY <1>1
<1>3. b \in Seq(Images) /\ Len(b) = Len(s) - k /\ \A l \in 1..(Len(s) - k) : b[l] = s[k + l]
  BY <1>1
<1>4. /\ a \o b \in Seq(Images) /\ Len(a \o b) = Len(s) - 1
      /\ \A l \in 1..(Len(s) - 1) : (a \o b)[l] = IF l < k THEN a[l] ELSE b[l - (k - 1)]
  <2> HIDE DEF a, b
  <2>1. a \o b \in Seq(Images) /\ Len(a \o b) = Len(a) + Len(b)
    BY <1>2, <1>3, ConcatProperties
  <2>2. \A l \in 1..(Len(a) + Len(b)) : (a \o b)[l] = IF l <= Len(a) THEN a[l] ELSE b[l - Len(a)]
    BY <1>2, <1>3, ConcatProperties
  <2>3. Len(a) + Len(b) = Len(s) - 1 /\ \A l \in 1..(Len(s) - 1) : l <= Len(a) <=> l < k
    BY <1>1, <1>2, <1>3
  <2> QED BY <1>2, <2>1, <2>2, <2>3
<1>5. ASSUME NEW l \in 1..(Len(s) - 1)
      PROVE  (a \o b)[l] = IF l < k THEN s[l] ELSE s[l + 1]
  <2> HIDE DEF a, b
  <2>1. CASE l < k
    BY <1>1, <1>2, <1>4, <2>1
  <2>2. CASE ~(l < k)
    <3>1. l - (k - 1) \in 1..(Len(s) - k) /\ k + (l - (k - 1)) = l + 1
      BY <1>1, <2>2
    <3> QED BY <1>1, <1>3, <1>4, <2>2, <3>1
  <2> QED BY <2>1, <2>2
<1>6. RemoveAt(s, k) = a \o b
  BY DEF RemoveAt
<1>7. DOMAIN (a \o b) = 1..(Len(s) - 1)
  <2> HIDE DEF a, b
  <2> QED BY <1>4
<1> HIDE DEF a, b
<1> QED BY <1>4, <1>5, <1>6, <1>7

\* Removing an image takes it out of the list, and no other.
LEMMA CutKeeps ==
  ASSUME images \in Seq(Images), ListedOnce, NEW i \in Images, Cut(i)
  PROVE  /\ images' \in Seq(Images)
         /\ ListedOnce'
         /\ ToSet(images) \ {i} \subseteq ToSet(images')
<1>1. CASE i \notin ToSet(images) /\ UNCHANGED images
  BY <1>1 DEF ListedOnce
<1>2. ASSUME NEW k \in DOMAIN images, images[k] = i, images' = RemoveAt(images, k)
      PROVE  /\ images' \in Seq(Images)
             /\ ListedOnce'
             /\ ToSet(images) \ {i} \subseteq ToSet(images')
  <2>1. /\ k \in 1..Len(images) /\ Len(images) \in Nat /\ DOMAIN images = 1..Len(images)
    OBVIOUS
  <2>2. /\ images' \in Seq(Images)
        /\ DOMAIN images' = 1..(Len(images) - 1)
        /\ \A l \in 1..(Len(images) - 1) :
             images'[l] = IF l < k THEN images[l] ELSE images[l + 1]
    BY <1>2, CutList
  <2>3. ListedOnce'
    <3> SUFFICES ASSUME NEW p \in 1..(Len(images) - 1), NEW q \in 1..(Len(images) - 1),
                        images'[p] = images'[q]
                 PROVE  p = q
      BY <2>2 DEF ListedOnce
    <3> DEFINE old(l) == IF l < k THEN l ELSE l + 1
    <3>1. old(p) \in DOMAIN images /\ old(q) \in DOMAIN images
      BY <2>1
    <3>2. images'[p] = images[old(p)] /\ images'[q] = images[old(q)]
      BY <2>2
    <3>3. old(p) = old(q)
      BY <3>1, <3>2 DEF ListedOnce
    <3> QED BY <2>1, <3>3
  <2>4. ASSUME NEW x \in ToSet(images), x # i
        PROVE  x \in ToSet(images')
    <3>1. PICK p \in 1..Len(images) : images[p] = x
      BY <2>4 DEF ToSet
    <3> DEFINE new == IF p < k THEN p ELSE p - 1
    <3>2. p # k
      BY <1>2, <2>4, <3>1
    <3>3. new \in 1..(Len(images) - 1) /\ (new < k <=> p < k) /\ (~(p < k) => new + 1 = p)
      BY <2>1, <3>2
    <3>4. images'[new] = x
      BY <2>2, <3>1, <3>3
    <3> QED BY <2>2, <3>3, <3>4 DEF ToSet
  <2> QED BY <2>2, <2>3, <2>4
<1> QED BY <1>1, <1>2 DEF Cut

-----------------------------------------------------------------------------
(* The daemon set *)

\* preloadImages that returns no error has brought the daemon set up to date.
LEMMA Preloaded ==
  ASSUME NEW list, preloadImages(list)
  PROVE  /\ result' \in {"ok", "error"}
         /\ disturbed' \in BOOLEAN
         /\ disturbed' = (result' = "error")
         /\ result' = "ok" => daemonSet' = Deployed(list)
<1>1. /\ result' \in {"ok", "error"}
      /\ result' = "ok" => daemonSet' = Deployed(list)
  BY DEF preloadImages, DeleteDaemonSet, CreateDaemonSet, UpdateDaemonSet, Deployed
<1>2. disturbed' = (result' = "error")
  BY DEF preloadImages
<1> QED BY <1>1, <1>2

-----------------------------------------------------------------------------

\* At first the list is empty and there is no daemon set.
LEMMA PreloaderInit == Init => PreloaderInv
<1> SUFFICES ASSUME Init PROVE PreloaderInv
  OBVIOUS
<1>1. images = <<>> /\ images \in Seq(Images) /\ DOMAIN images = {}
  BY DEF Init
<1>2. disturbed \in BOOLEAN /\ wanted = {} /\ daemonSet = None
  BY DEF Init
<1> QED BY <1>1, <1>2 DEF PreloaderInv, ListedOnce, Deployed

\* Every operation of the preloader, failing or not, keeps the invariant.
LEMMA PreloaderStep == PreloaderInv /\ [Next]_vars => PreloaderInv'
<1> SUFFICES ASSUME PreloaderInv, [Next]_vars PROVE PreloaderInv'
  OBVIOUS
<1> USE DEF PreloaderInv
<1>1. ASSUME NEW i \in Images, AddImage(i) PROVE PreloaderInv'
  <2>1. CASE i \in ToSet(images)
    <3>1. wanted' = wanted \cup {i} /\ UNCHANGED <<images, daemonSet, disturbed>>
      BY <1>1, <2>1 DEF AddImage
    <3> QED BY <2>1, <3>1 DEF ListedOnce
  <2>2. CASE i \notin ToSet(images)
    <3>1. /\ images' = Append(images, i) /\ preloadImages(images')
          /\ wanted' = wanted \cup {i} \/ wanted' = wanted
      BY <1>1, <2>2 DEF AddImage
    <3>2. images' \in Seq(Images) /\ wanted' \subseteq ToSet(images')
      BY <3>1, AppendList
    <3>3. ListedOnce'
      BY <2>2, <3>1 DEF ListedOnce, ToSet
    <3>4. disturbed' \in BOOLEAN /\ (~disturbed' => daemonSet' = Deployed(images'))
      BY <3>1, Preloaded
    <3> QED BY <3>2, <3>3, <3>4
  <2> QED BY <2>1, <2>2
<1>2. ASSUME NEW i \in Images, RemoveImage(i) PROVE PreloaderInv'
  <2>1. Cut(i) /\ preloadImages(images') /\ wanted' = wanted \ {i}
    BY <1>2 DEF RemoveImage
  <2>2. images' \in Seq(Images) /\ ListedOnce' /\ wanted' \subseteq ToSet(images')
    BY <2>1, CutKeeps
  <2>3. disturbed' \in BOOLEAN /\ (~disturbed' => daemonSet' = Deployed(images'))
    BY <2>1, Preloaded
  <2> QED BY <2>2, <2>3
<1>3. CASE EmptyImages
  <2>1. images' = <<>> /\ preloadImages(images') /\ wanted' = {}
    BY <1>3 DEF EmptyImages
  <2>2. images' \in Seq(Images) /\ DOMAIN images' = {}
    BY <2>1
  <2>3. disturbed' \in BOOLEAN /\ (~disturbed' => daemonSet' = Deployed(images'))
    BY <2>1, Preloaded
  <2> QED BY <2>1, <2>2, <2>3 DEF ListedOnce
<1>4. CASE Cleanup
  BY <1>4 DEF Cleanup, ListedOnce
<1>5. CASE UNCHANGED vars
  BY <1>5 DEF vars, ListedOnce
<1> QED BY <1>1, <1>2, <1>3, <1>4, <1>5 DEF Next

\* No image is listed twice: the loop of RemoveImage, which shortens the list it ranges
\* over, meets its image once.
THEOREM ImagesAreListedOnce == Spec => []ListedOnce
<1>1. PreloaderInv => ListedOnce
  BY DEF PreloaderInv
<1> QED BY <1>1, PreloaderInit, PreloaderStep, PTL DEF Spec

\* An image whose AddImage returned no error is in the daemon set, unless an operation
\* has just failed or Cleanup was called.
THEOREM WantedImagesArePreloaded == Spec => []WantedIsPreloaded
<1>1. PreloaderInv => WantedIsPreloaded
  <2> SUFFICES ASSUME PreloaderInv, wanted # {}, ~disturbed
               PROVE  daemonSet # None /\ wanted \subseteq ToSet(daemonSet)
    BY DEF WantedIsPreloaded
  <2>1. images # <<>>
    BY DEF PreloaderInv, ToSet
  <2> QED BY <2>1, NoneAssumption DEF PreloaderInv, Deployed
<1> QED BY <1>1, PreloaderInit, PreloaderStep, PTL DEF Spec

\* An operation that changes the list and returns no error leaves the daemon set with
\* exactly that list, whatever failed before it.
THEOREM FailuresAreHealed == Spec => FailuresHeal
<1>1. ASSUME [Next]_vars
      PROVE  [images' # images /\ result' = "ok" =>
                daemonSet' = IF images' = <<>> THEN None ELSE images']_vars
  <2> SUFFICES ASSUME images' # images, result' = "ok"
               PROVE  daemonSet' = Deployed(images')
    BY DEF Deployed
  <2>1. preloadImages(images')
    BY <1>1 DEF Next, vars, AddImage, RemoveImage, EmptyImages, Cleanup
  <2> QED BY <2>1, Preloaded
<1> QED BY <1>1, PTL DEF Spec, FailuresHeal
=============================================================================
