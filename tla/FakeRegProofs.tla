---------------------------- MODULE FakeRegProofs ----------------------------
(***************************************************************************)
(* The registry of the tests, for any tags, any artifacts and any stage    *)
(* that is made to fail: Start's is a Registry for whoever pushes a tag    *)
(* once, and StatefulFailReg fails the stage a test names.                 *)
(***************************************************************************)
EXTENDS FakeReg, SequenceTheorems, TLAPS

Pushing == {"head", "post", "put"}

FakeTypeOK ==
    /\ failOn \in Nat /\ calls \in Nat
    /\ pc \in Pushing \cup {"new", "idle", "failed"}
    /\ art \in Artifacts /\ tag \in Tags
    /\ todo \in Seq(Digests)

\* How many blobs of the artifact the client is done with.
Behind == Len(art) - Len(todo)

\* The client's push: the blobs left are the end of the artifact.
Rest ==
    /\ pc \in Pushing =>
          /\ Len(todo) <= Len(art)
          /\ \A i \in 1..Len(todo) : todo[i] = art[Behind + i]
    /\ pc \in {"post", "put"} => todo # <<>>

\* Start keeps what was uploaded, and whole artifacts only.
Uploaded == failOn = 0 =>
    /\ pc \in Pushing => \A i \in 1..Behind : art[i] \in Blobs
    /\ \A t \in DOMAIN Manifests :
          Manifests[t] \in Artifacts /\ \A i \in DOMAIN Manifests[t] : Manifests[t][i] \in Blobs

\* In a first push StatefulFailReg has counted one upload per blob, and none of
\* them was the one to fail.
Counted ==
    /\ pc = "new" => calls = 0
    /\ pc = "failed" => failOn # 0 /\ (first => Behind + 1 = failOn)
    /\ failOn # 0 /\ first /\ pc \in Pushing =>
          /\ calls = IF pc = "put" THEN Behind + 1 ELSE Behind
          /\ calls < failOn

FakeInv == FakeTypeOK /\ Rest /\ Uploaded /\ Counted

-----------------------------------------------------------------------------
(* The invariant.                                                          *)

\* An artifact is a sequence of digests.
LEMMA Sequence == ASSUME NEW a \in Artifacts PROVE a \in Seq(Digests)
  BY ArtifactsAssumption

\* Nothing was pushed at the start.
LEMMA FakeInit == Init => FakeInv
  BY FailOnsAssumption DEF Init, FakeInv, FakeTypeOK, Rest, Uploaded, Counted, Pushing

\* A client that begins has all of its artifact left.
LEMMA BeginKeeps ==
    ASSUME FakeInv, NEW t \in Tags, NEW a \in Artifacts, Begin(t, a)
    PROVE  FakeInv'
<1> USE DEF FakeInv, Pushing
<1>1. /\ pc' = "head" /\ tag' = t /\ art' = a /\ todo' = a
      /\ UNCHANGED <<failOn, Blobs, Manifest, Manifests, calls>>
  BY DEF Begin, server
<1>0. first' => calls = 0
  <2>1. first' = (pc = "new")
    BY DEF Begin
  <2>2. pc = "new" => calls = 0
    BY DEF Counted
  <2> QED BY <2>1, <2>2, Zenon
<1>2. a \in Seq(Digests) /\ Len(a) \in Nat
  BY Sequence
<1>3. FakeTypeOK'
  BY <1>1, <1>2 DEF FakeTypeOK
<1>4. Behind' = 0
  BY <1>1, <1>2 DEF Behind
<1>5. Rest'
  BY <1>1, <1>2, <1>4 DEF Rest
<1>6. Uploaded'
  BY <1>1, <1>4 DEF Uploaded
<1>7. Counted'
  BY <1>1, <1>4, <1>0 DEF Counted, FakeTypeOK
<1> QED BY <1>3, <1>5, <1>6, <1>7

\* What is left, when one blob is done with.
LEMMA OneLess ==
    ASSUME FakeTypeOK, Rest, pc \in Pushing, todo # <<>>, art' = art, todo' = Tail(todo)
    PROVE  /\ todo' \in Seq(Digests) /\ Len(todo') = Len(todo) - 1
           /\ Len(art) \in Nat /\ Len(todo) \in Nat \ {0} /\ Len(todo) <= Len(art)
           /\ Behind' = Behind + 1 /\ Behind \in Nat /\ Head(todo) = art[Behind + 1]
           /\ \A i \in 1..Len(todo') : todo'[i] = art'[Behind' + i]
<1>1. /\ todo \in Seq(Digests) /\ art \in Seq(Digests)
      /\ Len(todo) \in Nat \ {0} /\ Len(art) \in Nat
  BY Sequence DEF FakeTypeOK
<1>2. /\ todo' \in Seq(Digests) /\ Len(todo') = Len(todo) - 1 /\ Head(todo) = todo[1]
      /\ \A i \in 1..Len(todo') : todo'[i] = todo[i + 1]
  BY <1>1
<1>3. Len(todo) <= Len(art) /\ \A i \in 1..Len(todo) : todo[i] = art[Behind + i]
  BY DEF Rest
<1>4. Behind' = Behind + 1 /\ Behind \in Nat
  BY <1>1, <1>2, <1>3 DEF Behind
<1>5. Head(todo) = art[Behind + 1]
  BY <1>1, <1>2, <1>3
<1>6. ASSUME NEW i \in 1..Len(todo') PROVE todo'[i] = art'[Behind' + i]
  <2>1. i + 1 \in 1..Len(todo) /\ todo'[i] = todo[i + 1]
    BY <1>1, <1>2
  <2>2. Behind + (i + 1) = Behind' + i
    BY <1>4, <2>1
  <2> QED BY <1>3, <2>1, <2>2
<1> QED BY <1>1, <1>2, <1>3, <1>4, <1>5, <1>6

\* A blob that Start has is skipped; the others are uploaded.
LEMMA HeadKeeps == ASSUME FakeInv, HeadBlob PROVE FakeInv'
<1> USE DEF FakeInv, Pushing
<1>1. /\ pc = "head" /\ todo # <<>>
      /\ UNCHANGED <<failOn, Blobs, Manifest, Manifests, calls, art, tag>>
  BY DEF HeadBlob, server
<1>2. first' = first
  BY DEF HeadBlob
<1>3. CASE ~HasBlob(Head(todo))
  <2>1. pc' = "post" /\ todo' = todo
    BY <1>3 DEF HeadBlob
  <2>2. Behind' = Behind
    BY <1>1, <2>1 DEF Behind
  <2> QED BY <1>1, <1>2, <2>1, <2>2 DEF FakeTypeOK, Rest, Uploaded, Counted
<1>4. CASE HasBlob(Head(todo))
  <2>1. pc' = "head" /\ todo' = Tail(todo) /\ failOn = 0 /\ Head(todo) \in Blobs
    BY <1>1, <1>4 DEF HeadBlob, HasBlob
  <2>2. /\ todo' \in Seq(Digests) /\ Len(todo') = Len(todo) - 1
        /\ Len(art) \in Nat /\ Len(todo) \in Nat \ {0} /\ Len(todo) <= Len(art)
        /\ Behind' = Behind + 1 /\ Behind \in Nat /\ Head(todo) = art[Behind + 1]
        /\ \A i \in 1..Len(todo') : todo'[i] = art'[Behind' + i]
    BY <1>1, <2>1, OneLess
  <2>3. FakeTypeOK'
    BY <1>1, <2>1, <2>2 DEF FakeTypeOK
  <2>4. Rest'
    BY <1>1, <2>1, <2>2 DEF Rest
  <2>5. Uploaded'
    BY <1>1, <2>1, <2>2 DEF Uploaded
  <2>6. Counted'
    BY <1>1, <2>1 DEF Counted
  <2> QED BY <2>3, <2>4, <2>5, <2>6
<1> QED BY <1>3, <1>4

\* Each upload is counted, and the one that is to fail fails.
LEMMA PostKeeps == ASSUME FakeInv, PostUpload PROVE FakeInv'
<1> USE DEF FakeInv, Pushing
<1>1. /\ pc = "post"
      /\ calls' = IF calls > failOn THEN calls ELSE calls + 1
      /\ pc' = IF calls' = failOn THEN "failed" ELSE "put"
      /\ UNCHANGED <<failOn, Blobs, Manifest, Manifests, art, tag, todo>>
  BY DEF PostUpload
<1>2. first' = first
  BY DEF PostUpload
<1>3. Behind' = Behind
  BY <1>1 DEF Behind
<1>4. FakeTypeOK'
  BY <1>1 DEF FakeTypeOK
<1>5. Rest' /\ Uploaded'
  BY <1>1, <1>3 DEF Rest, Uploaded
<1>6. Counted'
  <2>1. failOn \in Nat /\ calls \in Nat /\ calls' \in Nat \ {0}
    BY <1>1 DEF FakeTypeOK
  <2>2. CASE pc' = "failed"
    <3>1. calls' = failOn /\ failOn # 0
      BY <1>1, <2>1, <2>2
    <3>2. ASSUME first PROVE Behind' + 1 = failOn
      <4>1. calls = Behind /\ calls < failOn
        BY <1>1, <3>1, <3>2 DEF Counted
      <4> QED BY <1>1, <1>3, <2>1, <3>1, <4>1
    <3> QED BY <1>1, <1>2, <2>2, <3>1, <3>2 DEF Counted
  <2>3. CASE pc' = "put" /\ calls' # failOn
    <3>1. ASSUME first, failOn # 0 PROVE calls' = Behind' + 1 /\ calls' < failOn
      <4>1. calls = Behind /\ calls < failOn
        BY <1>1, <3>1 DEF Counted
      <4> QED BY <1>1, <1>3, <2>1, <2>3, <4>1
    <3> QED BY <1>1, <1>2, <2>3, <3>1 DEF Counted
  <2> QED BY <1>1, <2>2, <2>3
<1> QED BY <1>4, <1>5, <1>6

\* An upload that ends is one blob less.
LEMMA PutKeeps == ASSUME FakeInv, PutBlob PROVE FakeInv'
<1> USE DEF FakeInv, Pushing
<1>1. /\ pc = "put" /\ pc' = "head" /\ todo' = Tail(todo) /\ Blobs' = Blobs \cup {Head(todo)}
      /\ UNCHANGED <<failOn, Manifest, Manifests, calls, art, tag>>
  BY DEF PutBlob, KeepBlob
<1>2. first' = first
  BY DEF PutBlob
<1>3. todo # <<>>
  BY <1>1 DEF Rest
<1>4. /\ todo' \in Seq(Digests) /\ Len(todo') = Len(todo) - 1
      /\ Len(art) \in Nat /\ Len(todo) \in Nat \ {0} /\ Len(todo) <= Len(art)
      /\ Behind' = Behind + 1 /\ Behind \in Nat /\ Head(todo) = art[Behind + 1]
      /\ \A i \in 1..Len(todo') : todo'[i] = art'[Behind' + i]
  BY <1>1, <1>3, OneLess
<1>5. FakeTypeOK'
  BY <1>1, <1>4 DEF FakeTypeOK
<1>6. Rest'
  BY <1>1, <1>4 DEF Rest
<1>7. Uploaded'
  BY <1>1, <1>4 DEF Uploaded
<1>0. Counted'
  BY <1>1, <1>2, <1>4 DEF Counted
<1> QED BY <1>5, <1>6, <1>7, <1>0

\* The manifest comes when nothing is left, so that all its blobs are there.
LEMMA ManifestKeeps == ASSUME FakeInv, PutManifest PROVE FakeInv'
<1> USE DEF FakeInv, Pushing
<1>1. /\ pc = "head" /\ todo = <<>> /\ pc' = "idle"
      /\ UNCHANGED <<failOn, Blobs, calls, art, tag, todo>>
  BY DEF PutManifest
<1>2. FakeTypeOK' /\ Rest' /\ Counted'
  BY <1>1 DEF FakeTypeOK, Rest, Counted
<1>3. Uploaded'
  <2> SUFFICES ASSUME failOn = 0, NEW t \in DOMAIN Manifests'
               PROVE  /\ Manifests'[t] \in Artifacts
                      /\ \A i \in DOMAIN Manifests'[t] : Manifests'[t][i] \in Blobs
    BY <1>1 DEF Uploaded
  <2>1. Manifests' = [u \in DOMAIN Manifests \cup {tag} |-> IF u = tag THEN art ELSE Manifests[u]]
    BY DEF PutManifest, KeepManifest
  <2>2. CASE t = tag
    <3>1. art \in Artifacts /\ DOMAIN art = 1..Len(art) /\ Len(art) \in Nat
      BY Sequence DEF FakeTypeOK
    <3>2. Behind = Len(art)
      BY <1>1, <3>1 DEF Behind
    <3>3. \A i \in DOMAIN art : art[i] \in Blobs
      BY <1>1, <3>1, <3>2 DEF Uploaded
    <3> QED BY <2>1, <2>2, <3>1, <3>3
  <2>3. CASE t # tag
    BY <2>1, <2>3 DEF Uploaded
  <2> QED BY <2>2, <2>3
<1> QED BY <1>2, <1>3

\* Every request keeps the invariant.
LEMMA FakeNext == FakeInv /\ [Next]_vars => FakeInv'
<1> SUFFICES ASSUME FakeInv, [Next]_vars PROVE FakeInv'
  OBVIOUS
<1>1. CASE UNCHANGED vars
  BY <1>1 DEF vars, FakeInv, FakeTypeOK, Rest, Uploaded, Counted, Behind
<1> QED BY <1>1, BeginKeeps, HeadKeeps, PostKeeps, PutKeeps, ManifestKeeps DEF Next

-----------------------------------------------------------------------------
(* The theorems.                                                           *)

\* The client is somewhere in its artifact, with what it has done in the server.
THEOREM Serving == Spec => []FakeInv
BY FakeInit, FakeNext, PTL DEF Spec

\* The registry of Start answers a GET of a tag that was pushed as a registry
\* does, and has its blobs, whatever else was pushed since.
THEOREM ReadsAgree == Spec => []ReadsOfRegistry
<1>1. FakeInv => ReadsOfRegistry
  <2> SUFFICES ASSUME FakeInv, failOn = 0, NEW t \in DOMAIN Manifests
               PROVE  /\ R!Resolve([repo |-> "r", tag |-> t]) = {Answer(t)}
                      /\ \A i \in DOMAIN Answer(t) : HasBlob(Answer(t)[i])
    BY DEF ReadsOfRegistry
  <2> DEFINE ref == [repo |-> "r", tag |-> t]
  <2>1. Answer(t) = Manifests[t]
    BY DEF Answer
  <2>2. ref \in [repo : {"r"}, tag : DOMAIN Manifests] /\ ref.tag = t
    OBVIOUS
  <2>3. ~R!IsDigest(ref)
    BY DEF R!IsDigest
  <2>4. R!Resolve(ref) = {Manifests[t]}
    BY <2>2, <2>3 DEF R!Resolve
  <2>5. \A i \in DOMAIN Answer(t) : HasBlob(Answer(t)[i])
    BY <2>1 DEF FakeInv, Uploaded, HasBlob
  <2> QED BY <2>1, <2>4, <2>5
<1> QED BY <1>1, Serving, PTL

\* StatefulFailReg fails the upload whose number a test names, counted in blobs
\* of the artifact, also if some of them are the same.
THEOREM FailsWhereAsked == Spec => []FailsAtStage
<1>1. FakeInv => FailsAtStage
  BY DEF FakeInv, Counted, FailsAtStage, Behind
<1> QED BY <1>1, Serving, PTL

\* With one more tag there is one more name in the repository.
LEMMA OneMoreName ==
    ASSUME NEW D, NEW d
    PROVE  [repo : {"r"}, tag : D \cup {d}]
              = [repo : {"r"}, tag : D] \cup {[repo |-> "r", tag |-> d]}
<1> DEFINE L == [repo : {"r"}, tag : D \cup {d}]
           of == [repo |-> "r", tag |-> d]
           S == [repo : {"r"}, tag : D]
<1>1. ASSUME NEW n \in L PROVE n \in S \cup {of}
  <2>1. n = [repo |-> "r", tag |-> n.tag] /\ n.tag \in D \cup {d}
    OBVIOUS
  <2>2. CASE n.tag = d
    BY <2>1, <2>2
  <2>3. CASE n.tag \in D
    BY <2>1, <2>3
  <2> QED BY <2>1, <2>2, <2>3
<1>2. of \in L /\ S \subseteq L
  OBVIOUS
<1> HIDE DEF L, S, of
<1>3. L = S \cup {of}
  BY <1>1, <1>2
<1> QED BY <1>3 DEF L, S, of

\* Whatever is pushed, a request on the registry of Start is a write of Registry
\* or none, unless it puts a second manifest under one tag.
THEOREM WritesAgree == Spec => WritesOfRegistry
<1> DEFINE W == \/ failOn # 0
                \/ pc = "head" /\ todo = <<>> /\ tag \in DOMAIN Manifests
                \/ \E d \in R!Blob : R!StoreBlob("r", d)
                \/ \E ref \in R!TagRef, m \in Artifacts : R!StoreManifest(ref, m)
<1>1. Init => R!RegistryInit
  BY DEF Init, R!RegistryInit
<1>2. FakeInv /\ [Next]_vars => [W]_R!registryVars
  <2> SUFFICES ASSUME FakeInv, [Next]_vars, failOn = 0 PROVE [W]_R!registryVars
    OBVIOUS
  <2>1. ASSUME UNCHANGED <<Blobs, Manifests>> PROVE [W]_R!registryVars
    BY <2>1 DEF R!registryVars
  <2>2. CASE UNCHANGED vars
    BY <2>1, <2>2 DEF vars
  <2>3. ASSUME NEW t \in Tags, NEW a \in Artifacts, Begin(t, a) PROVE [W]_R!registryVars
    BY <2>1, <2>3 DEF Begin, server
  <2>4. CASE HeadBlob
    BY <2>1, <2>4 DEF HeadBlob, server
  <2>5. CASE PostUpload
    BY <2>1, <2>5 DEF PostUpload
  <2>6. CASE PutBlob
    <3>1. /\ Blobs' = Blobs \cup {Head(todo)} /\ UNCHANGED Manifests
      BY <2>6 DEF PutBlob, KeepBlob
    <3>2. Head(todo) \in Digests
      BY <2>6 DEF PutBlob, FakeInv, FakeTypeOK, Rest
    <3>3. R!StoreBlob("r", Head(todo))
      BY <3>1 DEF R!StoreBlob
    <3>4. Head(todo) \in R!Blob
      BY <3>2 DEF R!Blob
    <3> QED BY <3>3, <3>4
  <2>7. CASE PutManifest /\ tag \in DOMAIN Manifests
    BY <2>7 DEF PutManifest
  <2>8. CASE PutManifest /\ tag \notin DOMAIN Manifests
    <3> DEFINE of == [repo |-> "r", tag |-> tag]
               Named(D) == [repo : {"r"}, tag : D]
               Tagged == [n \in Named(DOMAIN Manifests) |-> Manifests[n.tag]]
    <3>1. /\ Manifests' = [u \in DOMAIN Manifests \cup {tag} |->
                               IF u = tag THEN art ELSE Manifests[u]]
          /\ Blobs' = Blobs
      BY <2>8 DEF PutManifest, KeepManifest
    <3>2. of \in R!TagRef /\ art \in Artifacts /\ of.repo = "r"
      BY DEF FakeInv, FakeTypeOK, R!TagRef
    <3>3. /\ [r \in {"r"} |-> Blobs'] = [r \in {"r"} |-> Blobs]
          /\ [r \in {"r"} |-> {Manifests[t] : t \in DOMAIN Manifests}]'
                = [[r \in {"r"} |-> {Manifests[t] : t \in DOMAIN Manifests}]
                      EXCEPT !["r"] = @ \cup {art}]
      <4>1. {Manifests[t] : t \in DOMAIN Manifests}'
                = {Manifests[t] : t \in DOMAIN Manifests} \cup {art}
        BY <2>8, <3>1
      <4> QED BY <3>1, <4>1
    <3>4. Named(DOMAIN Manifests') = Named(DOMAIN Manifests) \cup {of}
      <4>1. DOMAIN Manifests' = DOMAIN Manifests \cup {tag}
        BY <3>1
      <4> QED BY <4>1, OneMoreName
    <3>5. Tagged' = [n \in DOMAIN Tagged \cup {of} |-> IF n = of THEN art ELSE Tagged[n]]
      <4>1. ASSUME NEW n \in Named(DOMAIN Manifests) \cup {of}
            PROVE  Manifests'[n.tag] = IF n = of THEN art ELSE Tagged[n]
        <5>1. CASE n = of
          BY <3>1, <5>1
        <5>2. CASE n # of
          <6>1. n \in Named(DOMAIN Manifests) /\ n.tag \in DOMAIN Manifests /\ n.tag # tag
            BY <5>2
          <6> QED BY <3>1, <5>2, <6>1
        <5> QED BY <5>1, <5>2
      <4>2. Tagged' = [n \in Named(DOMAIN Manifests) \cup {of} |-> Manifests'[n.tag]]
        BY <3>4
      <4> HIDE DEF of
      <4> QED BY <4>1, <4>2
    <3>6. R!StoreManifest(of, art)
      BY <3>2, <3>3, <3>5 DEF R!StoreManifest
    <3>7. of \in R!TagRef /\ art \in Artifacts
      BY <3>2
    <3> HIDE DEF of
    <3>8. \E ref \in R!TagRef, m \in Artifacts : R!StoreManifest(ref, m)
      BY <3>6, <3>7 DEF R!StoreManifest
    <3> QED BY <3>8
  <2> QED BY <2>2, <2>3, <2>4, <2>5, <2>6, <2>7, <2>8 DEF Next
<1> QED BY <1>1, <1>2, Serving, PTL DEF Spec, WritesOfRegistry
=============================================================================
