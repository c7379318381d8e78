--------------------------- MODULE Picture_proofs ---------------------------
(***************************************************************************)
(* Where pictures are held in counted or shared buffers: the codec's, for  *)
(* any pool and any number of submissions; the capture backends', for any  *)
(* queue and any number of textures; the preview's shared ring, for any    *)
(* number of slots and staging surfaces.                                   *)
(***************************************************************************)
EXTENDS Preview, Capture, H264Encoder, FiniteSetTheorems, WellFoundedInduction, TLAPS

-----------------------------------------------------------------------------
(* The encoder                                                             *)

Entries == [pts : Submitted, buffer : AllBuffers, forced : BOOLEAN, due : Owed]
Tallies == [submissions : 0 .. MaxSubmissions, requests : 0 .. MaxRequests, faults : 0 .. EncoderFaults]

(* A buffer the codec has not coded shows what it was submitted with, so   *)
(* no later picture was written there.                                     *)
CodecSeesItsPictures == \A i \in DOMAIN codec : shows[codec[i].buffer] = codec[i].pts

(* A request travels with the flag until a picture takes it.               *)
RequestsTravel ==
  /\ forceIdr <=> due = "yes"
  /\ \A i \in DOMAIN codec : codec[i].forced <=> codec[i].due = "yes"

EncoderInv == EncoderTypeOK /\ CodecSeesItsPictures /\ RequestsTravel
              /\ PacketsShowTheirPictures /\ OneRequestOneKeyframe

LEMMA EncoderConstants ==
  /\ PoolSize \in Nat \ {0} /\ MaxSubmissions \in Nat /\ MaxRequests \in Nat /\ EncoderFaults \in Nat
  BY EncoderAssumption

(* A set of naturals has a least element.                                  *)
LEMMA NaturalsHaveALeast ==
  ASSUME NEW S \in SUBSET Nat, S # {}
  PROVE  \E p \in S : \A q \in S : p <= q
  <1> DEFINE R == {ss \in Nat \X Nat : ss[1] < ss[2]}
  <1>1. IsWellFoundedOn(R, Nat)
    BY NatLessThanWellFounded DEF OpToRel
  <1>2. \E x \in S : \A y \in S : ~(<<y, x>> \in R)
    <2> HIDE DEF R
    <2> QED BY <1>1, WFMin
  <1>3. \A x, y \in Nat : y < x => <<y, x>> \in R
    OBVIOUS
  <1> HIDE DEF R
  <1>4. PICK x \in S : \A y \in S : ~(<<y, x>> \in R)
    BY <1>2
  <1>5. ASSUME NEW y \in S PROVE x <= y
    <2>1. x \in Nat /\ y \in Nat /\ ~(y < x)
      BY <1>3, <1>4
    <2> QED BY <2>1
  <1> QED BY <1>5

(* The buffer a picture is written to is one the codec does not refer to.  *)
LEMMA WritableIsFree ==
  ASSUME EncoderTypeOK, WritableBuffer # 0
  PROVE  /\ WritableBuffer \in AllBuffers
         /\ \A i \in DOMAIN codec : codec[i].buffer # WritableBuffer
  <1>1. FreeBuffers \in SUBSET AllBuffers /\ AllBuffers \in SUBSET Nat
    BY EncoderConstants DEF FreeBuffers, Buffers, AllBuffers
  <1>2. WritableBuffer \in FreeBuffers
    <2>1. CASE ~hardware /\ own \in FreeBuffers
      BY <2>1 DEF WritableBuffer
    <2>2. CASE ~(~hardware /\ own \in FreeBuffers)
      <3>1. FreeBuffers # {} /\ WritableBuffer = LeastOf(FreeBuffers)
        BY <2>2 DEF WritableBuffer
      <3>2. \E b \in FreeBuffers : \A c \in FreeBuffers : b <= c
        BY <1>1, <3>1, NaturalsHaveALeast
      <3> QED BY <3>1, <3>2 DEF LeastOf
    <2> QED BY <2>1, <2>2
  <1> QED BY <1>1, <1>2 DEF FreeBuffers, Referenced

LEMMA TallyMoves ==
  ASSUME NEW A, NEW B, NEW C, NEW t \in [submissions : A, requests : B, faults : C],
         NEW a \in A, NEW b \in B, NEW c \in C
  PROVE  /\ [t EXCEPT !.submissions = a] \in [submissions : A, requests : B, faults : C]
         /\ [t EXCEPT !.requests = b] \in [submissions : A, requests : B, faults : C]
         /\ [t EXCEPT !.faults = c, !.submissions = a] \in [submissions : A, requests : B, faults : C]
  OBVIOUS

LEMMA EncoderTallyHolds ==
  ASSUME EncoderTypeOK, EncoderNext
  PROVE  encodeTally' \in Tallies
  <1> USE EncoderConstants DEF Tallies
  <1>1. /\ encodeTally \in Tallies /\ encodeTally.submissions \in 0 .. MaxSubmissions
        /\ encodeTally.requests \in 0 .. MaxRequests /\ encodeTally.faults \in 0 .. EncoderFaults
    BY DEF EncoderTypeOK
  <1>2. CASE UNCHANGED encodeTally
    BY <1>1, <1>2
  <1>3. ASSUME encodeTally.requests < MaxRequests,
               encodeTally' = [encodeTally EXCEPT !.requests = @ + 1]
        PROVE  encodeTally' \in Tallies
    <2>1. encodeTally.requests + 1 \in 0 .. MaxRequests
      BY <1>1, <1>3
    <2> QED BY <1>1, <1>3, <2>1, TallyMoves
  <1>4. ASSUME CanSubmit, encodeTally' = [encodeTally EXCEPT !.submissions = @ + 1]
        PROVE  encodeTally' \in Tallies
    <2>1. encodeTally.submissions + 1 \in 0 .. MaxSubmissions
      BY <1>1, <1>4 DEF CanSubmit
    <2> QED BY <1>1, <1>4, <2>1, TallyMoves
  <1>5. ASSUME CanSubmit, EncoderFails
        PROVE  encodeTally' \in Tallies
    <2>1. encodeTally.submissions + 1 \in 0 .. MaxSubmissions /\ encodeTally.faults + 1 \in 0 .. EncoderFaults
      BY <1>1, <1>5 DEF CanSubmit, EncoderFails
    <2> QED BY <1>1, <1>5, <2>1, TallyMoves DEF EncoderFails
  <1> QED BY <1>2, <1>3, <1>4, <1>5, Zenon
      DEF EncoderNext, RequestKeyframe, SubmitPicture, SendFails, SubmitRefused, ReceivePacket, FlushEncoder

(* Writing a picture to a free buffer disturbs nothing the codec holds.    *)
LEMMA WritingIsSafe ==
  ASSUME EncoderTypeOK, CodecSeesItsPictures, CanSubmit, WritableBuffer # 0, WritesThePicture
  PROVE  /\ Picture \in Submitted /\ own' \in AllBuffers
         /\ shows' \in [AllBuffers -> Submitted \union {0}]
         /\ shows'[WritableBuffer] = Picture
         /\ \A i \in DOMAIN codec : shows'[codec[i].buffer] = codec[i].pts
  <1>1. Picture \in Submitted
    BY EncoderConstants DEF Picture, Submitted, CanSubmit, EncoderTypeOK
  <1>2. WritableBuffer \in AllBuffers /\ \A i \in DOMAIN codec : codec[i].buffer # WritableBuffer
    BY WritableIsFree
  <1>3. shows \in [AllBuffers -> Submitted \union {0}] /\ \A i \in DOMAIN codec : codec[i].buffer \in AllBuffers
    <2>1. shows \in [AllBuffers -> Submitted \union {0}] /\ codec \in Seq(Entries)
      BY DEF EncoderTypeOK, Entries
    <2>2. \A i \in DOMAIN codec : codec[i] \in Entries
      BY <2>1
    <2> QED BY <2>1, <2>2 DEF Entries
  <1>4. shows' = [shows EXCEPT ![WritableBuffer] = Picture] /\ own' = WritableBuffer
    BY DEF WritesThePicture
  <1> HIDE DEF WritableBuffer, Picture
  <1> QED BY <1>1, <1>2, <1>3, <1>4 DEF CodecSeesItsPictures

LEMMA EncoderSteps ==
  ASSUME EncoderInv, EncoderNext
  PROVE  EncoderInv'
  <1> USE DEF EncoderInv
  <1>0. /\ {hardware, forceIdr, flushed} \subseteq BOOLEAN /\ own \in AllBuffers \union {0}
        /\ shows \in [AllBuffers -> Submitted \union {0}] /\ codec \in Seq(Entries)
        /\ due \in Owed
        /\ packet \in [pts : Submitted \union {0}, shows : Submitted \union {0}, forced : BOOLEAN, due : Owed]
        /\ encodeTally' \in Tallies
    BY EncoderTallyHolds DEF EncoderTypeOK, Entries, Submitted
  <1>1. CASE RequestKeyframe
    BY <1>0, <1>1 DEF RequestKeyframe, EncoderTypeOK, Entries, Tallies, Owed, CodecSeesItsPictures, RequestsTravel,
       PacketsShowTheirPictures, OneRequestOneKeyframe
  <1>2. CASE SubmitPicture
    <2>1. /\ Picture \in Submitted /\ WritableBuffer \in AllBuffers /\ own' \in AllBuffers
          /\ shows' \in [AllBuffers -> Submitted \union {0}]
          /\ shows'[WritableBuffer] = Picture
          /\ \A i \in DOMAIN codec : shows'[codec[i].buffer] = codec[i].pts
      BY <1>2, WritingIsSafe, WritableIsFree DEF SubmitPicture
    <2> DEFINE new == [pts |-> Picture, buffer |-> WritableBuffer, forced |-> forceIdr, due |-> due]
    <2>2. new \in Entries /\ new.pts = Picture /\ new.buffer = WritableBuffer /\ new.forced = forceIdr /\ new.due = due
      BY <1>0, <2>1 DEF Entries
    <2>3. /\ codec' = Append(codec, new) /\ forceIdr' = FALSE /\ due' = "no"
          /\ UNCHANGED <<hardware, flushed, packet>>
      BY <1>2 DEF SubmitPicture, Consumed
    <2> HIDE DEF new
    <2>4. /\ codec' \in Seq(Entries) /\ DOMAIN codec' = 1 .. Len(codec) + 1 /\ Len(codec) \in Nat
          /\ codec'[Len(codec) + 1] = new
          /\ DOMAIN codec = 1 .. Len(codec) /\ \A i \in DOMAIN codec : codec'[i] = codec[i]
      BY <1>0, <2>2, <2>3
    <2>5. EncoderTypeOK'
      BY <1>0, <2>1, <2>3, <2>4 DEF EncoderTypeOK, Entries, Tallies, Owed
    <2>6. CodecSeesItsPictures' /\ RequestsTravel'
      BY <2>1, <2>2, <2>3, <2>4 DEF CodecSeesItsPictures, RequestsTravel
    <2> QED BY <2>3, <2>5, <2>6 DEF PacketsShowTheirPictures, OneRequestOneKeyframe
  <1>3. CASE SendFails
    <2>1. /\ own' \in AllBuffers /\ shows' \in [AllBuffers -> Submitted \union {0}]
          /\ \A i \in DOMAIN codec : shows'[codec[i].buffer] = codec[i].pts
      BY <1>3, WritingIsSafe DEF SendFails
    <2>2. /\ forceIdr' = FALSE /\ due' = (IF forceIdr THEN "lost" ELSE due)
          /\ UNCHANGED <<hardware, codec, flushed, packet>>
      BY <1>3 DEF SendFails, Consumed
    <2>3. due' \in Owed /\ due' # "yes"
      BY <1>0, <2>2 DEF Owed, RequestsTravel
    <2>4. EncoderTypeOK'
      BY <1>0, <2>1, <2>2, <2>3 DEF EncoderTypeOK, Entries, Tallies
    <2> QED BY <2>1, <2>2, <2>3, <2>4
        DEF CodecSeesItsPictures, RequestsTravel, PacketsShowTheirPictures, OneRequestOneKeyframe
  <1>4. CASE SubmitRefused \/ FlushEncoder
    <2>1. UNCHANGED <<hardware, shows, codec, forceIdr, due, packet>> /\ own' \in {0, own}
          /\ flushed' \in {flushed, TRUE}
      BY <1>4 DEF SubmitRefused, FlushEncoder
    <2> QED BY <1>0, <2>1 DEF EncoderTypeOK, Entries, Tallies, CodecSeesItsPictures, RequestsTravel,
                              PacketsShowTheirPictures, OneRequestOneKeyframe
  <1>5. CASE ReceivePacket
    <2>1. /\ codec # <<>> /\ codec' = Tail(codec) /\ UNCHANGED <<hardware, own, shows, forceIdr, flushed, due>>
          /\ packet' = [pts |-> Head(codec).pts, shows |-> shows[Head(codec).buffer],
                        forced |-> Head(codec).forced, due |-> Head(codec).due]
      BY <1>5 DEF ReceivePacket
    <2>2. /\ codec' \in Seq(Entries) /\ 1 \in DOMAIN codec /\ Head(codec) = codec[1] /\ codec[1] \in Entries
          /\ \A i \in DOMAIN codec' : i + 1 \in DOMAIN codec /\ codec'[i] = codec[i + 1]
      BY <1>0, <2>1
    <2>3. /\ packet'.pts = codec[1].pts /\ packet'.shows = codec[1].pts /\ packet'.forced = codec[1].forced
          /\ packet'.due = codec[1].due /\ shows[codec[1].buffer] = codec[1].pts
      BY <2>1, <2>2 DEF CodecSeesItsPictures
    <2>4. packet' \in [pts : Submitted \union {0}, shows : Submitted \union {0}, forced : BOOLEAN, due : Owed]
      BY <2>1, <2>2, <2>3 DEF Entries
    <2>5. EncoderTypeOK'
      BY <1>0, <2>1, <2>2, <2>4 DEF EncoderTypeOK, Entries, Tallies
    <2>6. CodecSeesItsPictures' /\ RequestsTravel'
      BY <2>1, <2>2 DEF CodecSeesItsPictures, RequestsTravel
    <2> QED BY <2>2, <2>3, <2>5, <2>6 DEF PacketsShowTheirPictures, OneRequestOneKeyframe, RequestsTravel
  <1> QED BY <1>1, <1>2, <1>3, <1>4, <1>5 DEF EncoderNext

LEMMA EncoderHolds == EncoderSpec => []EncoderInv
  <1>1. EncoderInit => EncoderInv
    <2> SUFFICES ASSUME EncoderInit PROVE EncoderInv
      OBVIOUS
    <2>1. EncoderTypeOK
      <3>1. /\ {hardware, forceIdr, flushed} \subseteq BOOLEAN /\ own = 0 /\ due \in Owed
            /\ shows \in [AllBuffers -> Submitted \union {0}]
        BY DEF EncoderInit, Owed
      <3>2. codec \in Seq([pts : Submitted, buffer : AllBuffers, forced : BOOLEAN, due : Owed])
        BY DEF EncoderInit
      <3>3. packet \in [pts : Submitted \union {0}, shows : Submitted \union {0}, forced : BOOLEAN, due : Owed]
        BY DEF EncoderInit, NoPacket, Owed
      <3>4. encodeTally \in [submissions : 0 .. MaxSubmissions, requests : 0 .. MaxRequests,
                             faults : 0 .. EncoderFaults]
        BY EncoderConstants DEF EncoderInit
      <3> QED BY <3>1, <3>2, <3>3, <3>4 DEF EncoderTypeOK
    <2> QED BY <2>1 DEF EncoderInit, EncoderInv, CodecSeesItsPictures, RequestsTravel, PacketsShowTheirPictures,
                        OneRequestOneKeyframe, NoPacket
  <1>2. EncoderInv /\ [EncoderNext]_encoderVars => EncoderInv'
    <2> SUFFICES ASSUME EncoderInv, [EncoderNext]_encoderVars PROVE EncoderInv'
      OBVIOUS
    <2>1. CASE UNCHANGED encoderVars
      BY <2>1 DEF EncoderInv, encoderVars, EncoderTypeOK, CodecSeesItsPictures, RequestsTravel,
                  PacketsShowTheirPictures, OneRequestOneKeyframe
    <2> QED BY <2>1, EncoderSteps
  <1> QED BY <1>1, <1>2, PTL DEF EncoderSpec

(* Every packet is made of the picture submitted with its time stamp,      *)
(* whichever path holds the pictures and however long the codec keeps a    *)
(* buffer.                                                                 *)
THEOREM PacketsAreTheirPictures == EncoderSpec => []PacketsShowTheirPictures
  <1>1. EncoderInv => PacketsShowTheirPictures
    BY DEF EncoderInv
  <1> QED BY <1>1, EncoderHolds, PTL

(* A keyframe that is asked for is coded in the first picture accepted     *)
(* after the request, and in no other, unless the submission that carried  *)
(* it failed.                                                              *)
THEOREM RequestsAreCodedOnce == EncoderSpec => []OneRequestOneKeyframe
  <1>1. EncoderInv => OneRequestOneKeyframe
    BY DEF EncoderInv
  <1> QED BY <1>1, EncoderHolds, PTL

-----------------------------------------------------------------------------
(* The capture backends                                                    *)

CountIn(s, x) == Cardinality({i \in DOMAIN s : s[i] = x})
Same(a, b) == IF a = b THEN 1 ELSE 0

PlacesOf(l, a, h, x) == Cardinality({y \in {<<"latest", l>>, <<"arriving", a>>, <<"held", h>>} : y[2] = x})

Tallied == [frames : Nat, faults : Nat, starts : Nat, made : Nat]

GrabTypes ==
  /\ grabTally \in Tallied /\ grabTally.made <= MaxTextures
  /\ latest \in 0 .. grabTally.made /\ arriving \in 0 .. grabTally.made /\ held \in 0 .. grabTally.made
  /\ grabbed \in Seq(Textures) /\ \A i \in DOMAIN grabbed : grabbed[i] <= grabTally.made
  /\ refs \in [Textures -> Int]

EveryReferenceHasItsHolder == \A x \in Textures : refs[x] = HoldersOf(x)

(* Nothing is left behind by a backend that has stopped, and nothing comes *)
(* to it afterwards.                                                       *)
RestsWhenIdle ==
  /\ user = "idle" => grabber = "none" /\ grabbed = <<>> /\ latest = 0 /\ ~live
  /\ user # "capturing" => held = 0
  /\ arriving # 0 => backend = "wgc" /\ grabber \in {"told", "runs"}

LEMMA GrabConstants == GrabCapacity \in Nat \ {0} /\ MaxTextures \in Nat
  BY CaptureAssumption

(* Counting where a texture is queued.                                     *)
LEMMA CountsAreNaturals ==
  ASSUME NEW S, NEW s \in Seq(S), NEW x
  PROVE  IsFiniteSet({i \in DOMAIN s : s[i] = x}) /\ CountIn(s, x) \in Nat
  <1>1. DOMAIN s = 1 .. Len(s) /\ Len(s) \in Nat
    OBVIOUS
  <1>2. IsFiniteSet(1 .. Len(s))
    BY <1>1, FS_Interval
  <1>3. {i \in DOMAIN s : s[i] = x} \in SUBSET (1 .. Len(s))
    BY <1>1
  <1>4. IsFiniteSet({i \in DOMAIN s : s[i] = x})
    BY <1>2, <1>3, FS_Subset
  <1> QED BY <1>4, FS_CardinalityType DEF CountIn

LEMMA CountOfNone ==
  ASSUME NEW S, NEW s \in Seq(S), NEW x, \A i \in DOMAIN s : s[i] # x
  PROVE  CountIn(s, x) = 0
  <1>1. {i \in DOMAIN s : s[i] = x} = {}
    OBVIOUS
  <1> QED BY <1>1, FS_EmptySet DEF CountIn

LEMMA CountOfAppend ==
  ASSUME NEW S, NEW s \in Seq(S), NEW y \in S, NEW x
  PROVE  CountIn(Append(s, y), x) = CountIn(s, x) + Same(y, x)
  <1> DEFINE T == {i \in DOMAIN s : s[i] = x}
             U == {i \in DOMAIN Append(s, y) : Append(s, y)[i] = x}
  <1>1. /\ Len(s) \in Nat /\ DOMAIN s = 1 .. Len(s) /\ DOMAIN Append(s, y) = 1 .. Len(s) + 1
        /\ Append(s, y)[Len(s) + 1] = y /\ \A i \in 1 .. Len(s) : Append(s, y)[i] = s[i]
    OBVIOUS
  <1>2. IsFiniteSet(T) /\ Cardinality(T) \in Nat
    BY CountsAreNaturals DEF CountIn
  <1>3. Len(s) + 1 \notin T
    BY <1>1
  <1>4. CASE y = x
    <2>1. U = T \cup {Len(s) + 1}
      BY <1>1, <1>4
    <2>2. Cardinality(T \cup {Len(s) + 1}) = Cardinality(T) + 1
      BY <1>2, <1>3, FS_AddElement
    <2> QED BY <2>1, <2>2, <1>4 DEF CountIn, Same
  <1>5. CASE y # x
    <2>1. U = T
      BY <1>1, <1>5
    <2>2. CountIn(Append(s, y), x) = CountIn(s, x)
      BY <2>1 DEF CountIn
    <2>3. CountIn(s, x) \in Nat
      BY CountsAreNaturals
    <2> QED BY <2>2, <2>3, <1>5 DEF Same
  <1> QED BY <1>4, <1>5

LEMMA CountOfTail ==
  ASSUME NEW S, NEW s \in Seq(S), s # <<>>, NEW x
  PROVE  CountIn(s, x) = CountIn(Tail(s), x) + Same(Head(s), x)
  <1> DEFINE T == {i \in DOMAIN Tail(s) : Tail(s)[i] = x}
             U == {i \in DOMAIN s : s[i] = x}
             f == [i \in T |-> i + 1]
  <1>1. /\ Len(s) \in Nat \ {0} /\ DOMAIN s = 1 .. Len(s) /\ DOMAIN Tail(s) = 1 .. Len(s) - 1
        /\ Head(s) = s[1] /\ \A i \in 1 .. Len(s) - 1 : Tail(s)[i] = s[i + 1]
        /\ Tail(s) \in Seq(S)
    OBVIOUS
  <1>2. IsFiniteSet(T) /\ IsFiniteSet(U) /\ Cardinality(T) \in Nat
    BY <1>1, CountsAreNaturals DEF CountIn
  <1>3. f \in Bijection(T, U \ {1})
    <2>1. \A i \in T : i \in Int /\ i + 1 \in U \ {1}
      BY <1>1
    <2>2. \A j \in U \ {1} : j \in Int /\ j - 1 \in T
      BY <1>1
    <2>3. f \in [T -> U \ {1}]
      BY <2>1
    <2>4. \A i, j \in T : f[i] = f[j] => i = j
      BY <2>1
    <2>5. \A j \in U \ {1} : \E i \in T : f[i] = j
      <3> SUFFICES ASSUME NEW j \in U \ {1} PROVE f[j - 1] = j /\ j - 1 \in T
        BY Zenon
      <3>1. j \in Int /\ j - 1 \in T
        BY <2>2
      <3> HIDE DEF T, U
      <3> QED BY <3>1
    <2> HIDE DEF f, T, U
    <2> QED BY <2>3, <2>4, <2>5 DEF Bijection, Injection, Surjection, IsInjective
  <1>4. Cardinality(U \ {1}) = Cardinality(T)
    <2>1. ExistsBijection(T, U \ {1})
      BY <1>3 DEF ExistsBijection
    <2> QED BY <2>1, <1>2, FS_Bijection
  <1>5. Cardinality(U \ {1}) = IF 1 \in U THEN Cardinality(U) - 1 ELSE Cardinality(U)
    BY <1>2, FS_RemoveElement
  <1>6. 1 \in U <=> Head(s) = x
    BY <1>1
  <1>7. Cardinality(U) \in Nat
    BY <1>2, FS_CardinalityType
  <1>8. CountIn(s, x) = Cardinality(U) /\ CountIn(Tail(s), x) = Cardinality(T)
    BY DEF CountIn
  <1> HIDE DEF T, U
  <1> QED BY <1>2, <1>4, <1>5, <1>6, <1>7, <1>8 DEF Same

LEMMA CountOfPlaces ==
  ASSUME NEW l, NEW a, NEW h, NEW x
  PROVE  PlacesOf(l, a, h, x) = Same(l, x) + Same(a, x) + Same(h, x)
  <1> DEFINE P == {<<"latest", l>>, <<"arriving", a>>, <<"held", h>>}
             F(b, e) == IF b THEN {e} ELSE {}
             A == F(l = x, <<"latest", l>>)
             B == F(a = x, <<"arriving", a>>)
             C == F(h = x, <<"held", h>>)
  <1>1. {y \in P : y[2] = x} = (A \cup B) \cup C
    OBVIOUS
  <1>2. IsFiniteSet({}) /\ Cardinality({}) = 0
    BY FS_EmptySet
  <1>3. IsFiniteSet(A) /\ Cardinality(A) = Same(l, x)
    BY <1>2, FS_Singleton DEF Same
  <1>4. IsFiniteSet(A \cup B) /\ Cardinality(A \cup B) = Same(l, x) + Same(a, x)
    <2>1. CASE a = x
      <3>1. <<"arriving", a>> \notin A
        OBVIOUS
      <3>2. A \cup B = A \cup {<<"arriving", a>>}
        BY <2>1
      <3> HIDE DEF A
      <3> QED BY <1>3, <2>1, <3>1, <3>2, FS_AddElement DEF Same
    <2>2. CASE a # x
      <3>1. A \cup B = A
        BY <2>2
      <3> QED BY <1>3, <2>2, <3>1 DEF Same
    <2> QED BY <2>1, <2>2
  <1>5. Cardinality((A \cup B) \cup C) = Same(l, x) + Same(a, x) + Same(h, x)
    <2>1. CASE h = x
      <3>1. <<"held", h>> \notin A \cup B
        OBVIOUS
      <3>2. (A \cup B) \cup C = (A \cup B) \cup {<<"held", h>>}
        BY <2>1
      <3> HIDE DEF A, B
      <3> QED BY <1>4, <2>1, <3>1, <3>2, FS_AddElement DEF Same
    <2>2. CASE h # x
      <3>1. (A \cup B) \cup C = A \cup B
        BY <2>2
      <3> QED BY <1>4, <2>2, <3>1 DEF Same
    <2> QED BY <2>1, <2>2
  <1> QED BY <1>1, <1>5 DEF PlacesOf

LEMMA HoldersAre ==
  ASSUME NEW x
  PROVE  /\ HoldersOf(x) = CountIn(grabbed, x) + (Same(latest, x) + Same(arriving, x) + Same(held, x))
         /\ HoldersOf(x)' = CountIn(grabbed', x) + (Same(latest', x) + Same(arriving', x) + Same(held', x))
  <1>1. /\ PlacesOf(latest, arriving, held, x) = Same(latest, x) + Same(arriving, x) + Same(held, x)
        /\ PlacesOf(latest', arriving', held', x) = Same(latest', x) + Same(arriving', x) + Same(held', x)
    BY CountOfPlaces
  <1>2. /\ HoldersOf(x) = CountIn(grabbed, x) + PlacesOf(latest, arriving, held, x)
        /\ HoldersOf(x)' = CountIn(grabbed', x) + PlacesOf(latest', arriving', held', x)
    BY DEF HoldersOf, CountIn, PlacesOf
  <1> QED BY <1>1, <1>2

(* What a step does to the references of a texture, said once.             *)
Gains(new, old, x) == new \in [Textures -> Int] /\ \A y \in Textures : new[y] = old[y] + Same(y, x)
Loses(new, old, x) == new \in [Textures -> Int] /\ \A y \in Textures : new[y] = old[y] - Same(y, x)

LEMMA CountedMoves ==
  ASSUME GrabTypes, NEW x \in Textures \union {0}
  PROVE  Gains(Counted(x, 1), refs, x) /\ Loses(Counted(x, -1), refs, x)
  BY DEF GrabTypes, Counted, Gains, Loses, Same, Textures

LEMMA ReleasedLoses ==
  ASSUME NEW counts \in [Textures -> Int], NEW x \in Textures \union {0}
  PROVE  Loses(ReleasedBy(counts, x), counts, x)
  BY DEF ReleasedBy, Loses, Same, Textures

(* push: the texture is counted behind the others, less the one displaced. *)
LEMMA PushCounts ==
  ASSUME GrabTypes, NEW y \in Textures
  PROVE  /\ QueuedBehind(y) \in Seq(Textures) /\ Shed \in Textures \union {0}
         /\ \A x \in Textures : CountIn(QueuedBehind(y), x) = CountIn(grabbed, x) - Same(x, Shed) + Same(x, y)
         /\ \A m \in Nat : y <= m /\ (\A i \in DOMAIN grabbed : grabbed[i] <= m) =>
               \A i \in DOMAIN QueuedBehind(y) : QueuedBehind(y)[i] <= m
  <1>0. grabbed \in Seq(Textures) /\ Textures \in SUBSET (Nat \ {0})
    BY DEF GrabTypes, Textures
  <1>1. CASE Len(grabbed) < GrabCapacity
    <2>1. Shed = 0 /\ QueuedBehind(y) = Append(grabbed, y)
      BY <1>1 DEF Shed, QueuedBehind
    <2>2. ASSUME NEW x \in Textures
          PROVE  CountIn(Append(grabbed, y), x) = CountIn(grabbed, x) + Same(y, x) /\ CountIn(grabbed, x) \in Nat
      BY <1>0, CountOfAppend, CountsAreNaturals, Zenon
    <2> QED BY <1>0, <2>1, <2>2 DEF Same
  <1>2. CASE ~(Len(grabbed) < GrabCapacity)
    <2>1. grabbed # <<>> /\ Head(grabbed) \in Textures /\ Tail(grabbed) \in Seq(Textures)
      BY <1>0, <1>2, GrabConstants
    <2>2. Shed = Head(grabbed) /\ QueuedBehind(y) = Append(Tail(grabbed), y)
      BY <1>0, <1>2, <2>1 DEF Shed, QueuedBehind
    <2>3. ASSUME NEW x \in Textures
          PROVE  CountIn(Append(Tail(grabbed), y), x) = CountIn(Tail(grabbed), x) + Same(y, x)
      BY <2>1, CountOfAppend, Zenon
    <2>4. ASSUME NEW x \in Textures
          PROVE  /\ CountIn(grabbed, x) = CountIn(Tail(grabbed), x) + Same(Head(grabbed), x)
                 /\ CountIn(Tail(grabbed), x) \in Nat
      BY <1>0, <2>1, CountOfTail, CountsAreNaturals, Zenon
    <2> QED BY <1>0, <2>1, <2>2, <2>3, <2>4 DEF Same
  <1> QED BY <1>1, <1>2

(* Steps that touch no texture, and those that hand one over.              *)
GrabOnlooks == StartsCapture \/ CaptureStarted \/ CaptureStops \/ WgcOpens \/ WgcTells \/ SetsRunning
               \/ TargetCloses \/ NoticesClosed \/ WgcCloses \/ AccessLost \/ AcquiresFromNothing \/ DdaEnds

LEMMA GrabStepsAreKnown ==
  ASSUME GrabNext
  PROVE  \/ GrabOnlooks \/ CaptureJoined \/ AcquiresFrame \/ ReleasesFrame \/ FrameArrives \/ FrameIsPushed
         \/ DdaOpens \/ DdaEmits \/ ReopensAfterLoss
  BY Zenon DEF GrabNext, GrabOnlooks

LEMMA OnlookersTouchNothing ==
  ASSUME GrabOnlooks
  PROVE  UNCHANGED <<latest, arriving, grabbed, held, refs>>
  BY DEF GrabOnlooks, StartsCapture, CaptureStarted, CaptureStops, WgcOpens, WgcTells, SetsRunning, TargetCloses,
         NoticesClosed, WgcCloses, AccessLost, AcquiresFromNothing, DdaEnds

(* The tally moves by one of its fields.                                   *)
TallyMovesBy == \/ grabTally' = grabTally
                \/ \E n \in Nat : \/ grabTally' = [grabTally EXCEPT !.frames = n]
                                  \/ grabTally' = [grabTally EXCEPT !.faults = n]
                                  \/ grabTally' = [grabTally EXCEPT !.starts = n]

LEMMA TallyHolds ==
  ASSUME grabTally \in Tallied, TallyMovesBy
  PROVE  grabTally' \in Tallied /\ grabTally'.made = grabTally.made
  <1>1. CASE grabTally' = grabTally
    BY <1>1
  <1>2. ASSUME NEW n \in Nat,
               \/ grabTally' = [grabTally EXCEPT !.frames = n]
               \/ grabTally' = [grabTally EXCEPT !.faults = n]
               \/ grabTally' = [grabTally EXCEPT !.starts = n]
        PROVE  grabTally' \in Tallied /\ grabTally'.made = grabTally.made
    <2>1. CASE grabTally' = [grabTally EXCEPT !.frames = n]
      BY <2>1 DEF Tallied
    <2>2. CASE grabTally' = [grabTally EXCEPT !.faults = n]
      BY <2>2 DEF Tallied
    <2>3. CASE grabTally' = [grabTally EXCEPT !.starts = n]
      BY <2>3 DEF Tallied
    <2> QED BY <1>2, <2>1, <2>2, <2>3
  <1> QED BY <1>1, <1>2 DEF TallyMovesBy

LEMMA FailsMoves ==
  ASSUME grabTally \in Tallied
  PROVE  /\ Fails => TallyMovesBy
         /\ UNCHANGED grabTally => TallyMovesBy
         /\ grabTally' = [grabTally EXCEPT !.frames = @ + 1] => TallyMovesBy
         /\ grabTally' = [grabTally EXCEPT !.starts = @ + 1] => TallyMovesBy
  <1>1. grabTally.faults + 1 \in Nat /\ grabTally.frames + 1 \in Nat /\ grabTally.starts + 1 \in Nat
    BY DEF Tallied
  <1> QED BY <1>1 DEF Fails, TallyMovesBy

LEMMA SameFacts ==
  ASSUME NEW a, NEW b
  PROVE  /\ Same(a, b) \in {0, 1} /\ Same(a, b) = Same(b, a)
         /\ a = b => Same(a, b) = 1
         /\ a # b => Same(a, b) = 0
  BY DEF Same

(* The numbers of holders, for a step: what HoldersAre says before and     *)
(* after it.                                                               *)
LEMMA HoldersBefore ==
  ASSUME GrabTypes, EveryReferenceHasItsHolder, NEW x \in Textures
  PROVE  /\ refs[x] = CountIn(grabbed, x) + (Same(latest, x) + Same(arriving, x) + Same(held, x))
         /\ CountIn(grabbed, x) \in Nat /\ x \in Nat \ {0}
         /\ x > grabTally.made => refs[x] = 0 /\ CountIn(grabbed, x) = 0
  <1>1. refs[x] = CountIn(grabbed, x) + (Same(latest, x) + Same(arriving, x) + Same(held, x))
    BY HoldersAre DEF EveryReferenceHasItsHolder
  <1>2. CountIn(grabbed, x) \in Nat /\ x \in Nat \ {0}
    <2>1. grabbed \in Seq(Textures) /\ x \in Nat \ {0}
      BY DEF GrabTypes, Textures
    <2> QED BY <2>1, CountsAreNaturals, Zenon
  <1>3. ASSUME x > grabTally.made PROVE CountIn(grabbed, x) = 0
    <2>1. \A i \in DOMAIN grabbed : grabbed[i] # x
      BY <1>2, <1>3 DEF GrabTypes, Textures, Tallied
    <2> QED BY <2>1, CountOfNone DEF GrabTypes
  <1>4. x > grabTally.made => Same(latest, x) = 0 /\ Same(arriving, x) = 0 /\ Same(held, x) = 0
    BY <1>2 DEF GrabTypes, Tallied, Same
  <1> QED BY <1>1, <1>2, <1>3, <1>4

LEMMA HoldersAfter ==
  ASSUME \A x \in Textures : refs'[x] = CountIn(grabbed', x) + (Same(latest', x) + Same(arriving', x) + Same(held', x))
  PROVE  EveryReferenceHasItsHolder'
  BY HoldersAre DEF EveryReferenceHasItsHolder

(* A frame passes from one holder to the next, or out of the queue.        *)
LEMMA FramesAreCounted ==
  ASSUME GrabTypes, EveryReferenceHasItsHolder,
         CaptureJoined \/ AcquiresFrame \/ ReleasesFrame \/ FrameArrives \/ FrameIsPushed \/ DdaEmits
  PROVE  GrabTypes' /\ EveryReferenceHasItsHolder'
  <1>0. /\ grabTally \in Tallied /\ grabTally.made \in Nat /\ grabTally.made <= MaxTextures
        /\ latest \in 0 .. grabTally.made /\ arriving \in 0 .. grabTally.made /\ held \in 0 .. grabTally.made
        /\ grabbed \in Seq(Textures) /\ (\A i \in DOMAIN grabbed : grabbed[i] <= grabTally.made)
        /\ refs \in [Textures -> Int] /\ Textures = 1 .. MaxTextures /\ MaxTextures \in Nat
    BY GrabConstants DEF GrabTypes, Tallied, Textures
  <1>1. CASE CaptureJoined
    <2>1. /\ grabbed' = <<>> /\ refs' = DrainedRefs /\ latest' = 0 /\ UNCHANGED <<arriving, held, grabTally>>
      BY <1>1 DEF CaptureJoined
    <2>2. DrainedRefs = [x \in Textures |-> refs[x] - CountIn(grabbed, x) - (IF x = latest THEN 1 ELSE 0)]
      BY DEF DrainedRefs, CountIn
    <2>3. \A x \in Textures : CountIn(grabbed, x) \in Nat
      BY <1>0, CountsAreNaturals, Zenon
    <2>4. GrabTypes'
      BY <1>0, <2>1, <2>2, <2>3 DEF GrabTypes
    <2>5. ASSUME NEW x \in Textures
          PROVE  refs'[x] = CountIn(grabbed', x) + (Same(latest', x) + Same(arriving', x) + Same(held', x))
      <3>1. CountIn(<<>>, x) = 0
        BY CountOfNone, <<>> \in Seq(Textures), \A i \in DOMAIN <<>> : <<>>[i] # x
      <3>2. refs[x] = CountIn(grabbed, x) + (Same(latest, x) + Same(arriving, x) + Same(held, x))
        BY HoldersBefore
      <3>3. Same(0, x) = 0 /\ Same(latest, x) = (IF x = latest THEN 1 ELSE 0)
            /\ Same(arriving, x) \in {0, 1} /\ Same(held, x) \in {0, 1}
        BY <1>0, SameFacts
      <3>4. refs'[x] = refs[x] - CountIn(grabbed, x) - Same(latest, x)
        BY <2>1, <2>2, <3>3
      <3>5. CountIn(grabbed', x) = 0 /\ latest' = 0 /\ arriving' = arriving /\ held' = held
        BY <2>1, <3>1
      <3> QED BY <2>3, <3>2, <3>3, <3>4, <3>5
    <2> QED BY <2>4, <2>5, HoldersAfter
  <1>2. CASE AcquiresFrame
    <2>1. /\ held = 0 /\ grabbed # <<>> /\ held' = Head(grabbed) /\ grabbed' = Tail(grabbed)
          /\ UNCHANGED <<latest, arriving, refs, grabTally>>
      BY <1>2 DEF AcquiresFrame
    <2>2. /\ Head(grabbed) \in 1 .. grabTally.made /\ Tail(grabbed) \in Seq(Textures)
          /\ \A i \in DOMAIN Tail(grabbed) : Tail(grabbed)[i] <= grabTally.made
      <3>1. Len(grabbed) \in Nat \ {0} /\ DOMAIN grabbed = 1 .. Len(grabbed) /\ Tail(grabbed) \in Seq(Textures)
            /\ Head(grabbed) = grabbed[1] /\ grabbed[1] \in Textures
        BY <1>0, <2>1
      <3>2. \A i \in DOMAIN Tail(grabbed) : i + 1 \in DOMAIN grabbed /\ Tail(grabbed)[i] = grabbed[i + 1]
        BY <1>0, <2>1
      <3>3. Head(grabbed) \in 1 .. grabTally.made
        BY <1>0, <3>1
      <3>4. ASSUME NEW i \in DOMAIN Tail(grabbed) PROVE Tail(grabbed)[i] <= grabTally.made
        BY <1>0, <3>2
      <3> QED BY <3>1, <3>3, <3>4
    <2>3. GrabTypes'
      BY <1>0, <2>1, <2>2 DEF GrabTypes
    <2>4. ASSUME NEW x \in Textures
          PROVE  refs'[x] = CountIn(grabbed', x) + (Same(latest', x) + Same(arriving', x) + Same(held', x))
      <3>1. CountIn(grabbed, x) = CountIn(Tail(grabbed), x) + Same(Head(grabbed), x)
            /\ CountIn(Tail(grabbed), x) \in Nat
        BY <1>0, <2>1, <2>2, CountOfTail, CountsAreNaturals, Zenon
      <3>2. refs[x] = CountIn(grabbed, x) + (Same(latest, x) + Same(arriving, x) + Same(held, x))
            /\ x \in Nat \ {0}
        BY HoldersBefore
      <3>3. Same(held, x) = 0 /\ Same(Head(grabbed), x) \in {0, 1}
            /\ Same(arriving, x) \in {0, 1} /\ Same(latest, x) \in {0, 1}
        BY <2>1, <3>2, SameFacts
      <3>4. /\ refs' = refs /\ latest' = latest /\ arriving' = arriving
            /\ held' = Head(grabbed) /\ grabbed' = Tail(grabbed)
        BY <2>1
      <3> HIDE DEF CountIn
      <3> QED BY <3>1, <3>2, <3>3, <3>4
    <2> QED BY <2>3, <2>4, HoldersAfter
  <1>3. CASE ReleasesFrame
    <2>1. /\ held # 0 /\ held' = 0 /\ refs' = Counted(held, -1)
          /\ UNCHANGED <<latest, arriving, grabbed, grabTally>>
      BY <1>3 DEF ReleasesFrame
    <2>2. Loses(refs', refs, held)
      BY <1>0, <2>1, CountedMoves
    <2>3. GrabTypes'
      BY <1>0, <2>1, <2>2 DEF GrabTypes, Gains, Loses
    <2>4. ASSUME NEW x \in Textures
          PROVE  refs'[x] = CountIn(grabbed', x) + (Same(latest', x) + Same(arriving', x) + Same(held', x))
      <3>1. /\ refs[x] = CountIn(grabbed, x) + (Same(latest, x) + Same(arriving, x) + Same(held, x))
            /\ CountIn(grabbed, x) \in Nat /\ x \in Nat \ {0}
        BY HoldersBefore
      <3>2. refs'[x] = refs[x] - Same(x, held)
        BY <2>2 DEF Gains, Loses
      <3>3. /\ Same(0, x) = 0 /\ Same(x, held) = Same(held, x)
            /\ Same(latest, x) \in {0, 1} /\ Same(arriving, x) \in {0, 1} /\ Same(held, x) \in {0, 1}
        BY <3>1, SameFacts
      <3>4. held' = 0 /\ latest' = latest /\ arriving' = arriving /\ grabbed' = grabbed
        BY <2>1
      <3> QED BY <3>1, <3>2, <3>3, <3>4
    <2> QED BY <2>3, <2>4, HoldersAfter
  <1>4. CASE FrameArrives
    <2>1. /\ arriving = 0 /\ CanMake /\ arriving' = NewTexture /\ refs' = Counted(NewTexture, 1)
          /\ grabTally' = [grabTally EXCEPT !.made = @ + 1]
          /\ UNCHANGED <<latest, grabbed, held>>
      BY <1>4 DEF FrameArrives
    <2>2. /\ NewTexture = grabTally.made + 1 /\ NewTexture \in Textures
          /\ grabTally' \in Tallied /\ grabTally'.made = grabTally.made + 1
      <3>1. grabTally.made + 1 \in 1 .. MaxTextures
        BY <1>0, <2>1 DEF CanMake
      <3> QED BY <1>0, <2>1, <3>1 DEF NewTexture, Tallied
    <2>3. Gains(refs', refs, NewTexture)
      BY <1>0, <2>1, <2>2, CountedMoves
    <2>4. GrabTypes'
      BY <1>0, <2>1, <2>2, <2>3 DEF GrabTypes, Gains, Loses
    <2>5. ASSUME NEW x \in Textures
          PROVE  refs'[x] = CountIn(grabbed', x) + (Same(latest', x) + Same(arriving', x) + Same(held', x))
      <3>1. /\ refs[x] = CountIn(grabbed, x) + (Same(latest, x) + Same(arriving, x) + Same(held, x))
            /\ CountIn(grabbed, x) \in Nat /\ x \in Nat \ {0}
        BY HoldersBefore
      <3>2. refs'[x] = refs[x] + Same(x, NewTexture)
        BY <2>3 DEF Gains, Loses
      <3>3. /\ Same(arriving, x) = 0 /\ Same(x, NewTexture) = Same(NewTexture, x)
            /\ Same(latest, x) \in {0, 1} /\ Same(held, x) \in {0, 1} /\ Same(NewTexture, x) \in {0, 1}
        BY <2>1, <3>1, SameFacts
      <3>4. held' = held /\ latest' = latest /\ arriving' = NewTexture /\ grabbed' = grabbed
        BY <2>1
      <3> QED BY <3>1, <3>2, <3>3, <3>4
    <2> QED BY <2>4, <2>5, HoldersAfter
  <1>5. CASE FrameIsPushed
    <2>1. /\ arriving # 0 /\ grabbed' = QueuedBehind(arriving) /\ refs' = ReleasedBy(refs, Shed) /\ arriving' = 0
          /\ grabTally' = [grabTally EXCEPT !.frames = @ + 1]
          /\ UNCHANGED <<latest, held>>
      BY <1>5 DEF FrameIsPushed
    <2>2. arriving \in Textures /\ grabTally' \in Tallied /\ grabTally'.made = grabTally.made
      BY <1>0, <2>1, FailsMoves, TallyHolds
    <2>3. /\ grabbed' \in Seq(Textures) /\ Shed \in Textures \union {0}
          /\ \A x \in Textures : CountIn(grabbed', x) = CountIn(grabbed, x) - Same(x, Shed) + Same(x, arriving)
          /\ \A i \in DOMAIN grabbed' : grabbed'[i] <= grabTally.made
      <3>1. arriving <= grabTally.made /\ latest <= grabTally.made
        BY <1>0
      <3> QED BY <1>0, <2>1, <2>2, <3>1, PushCounts
    <2>4. Loses(refs', refs, Shed)
      BY <1>0, <2>1, <2>3, ReleasedLoses
    <2>5. GrabTypes'
      BY <1>0, <2>1, <2>2, <2>3, <2>4 DEF GrabTypes, Gains, Loses
    <2>6. ASSUME NEW x \in Textures
          PROVE  refs'[x] = CountIn(grabbed', x) + (Same(latest', x) + Same(arriving', x) + Same(held', x))
      <3>1. /\ refs[x] = CountIn(grabbed, x) + (Same(latest, x) + Same(arriving, x) + Same(held, x))
            /\ CountIn(grabbed, x) \in Nat /\ x \in Nat \ {0}
        BY HoldersBefore
      <3>2. /\ refs'[x] = refs[x] - Same(x, Shed)
            /\ CountIn(grabbed', x) = CountIn(grabbed, x) - Same(x, Shed) + Same(x, arriving)
        BY <2>3, <2>4 DEF Gains, Loses
      <3>3. /\ Same(0, x) = 0 /\ Same(x, arriving) = Same(arriving, x) /\ Same(x, Shed) \in {0, 1}
            /\ Same(latest, x) \in {0, 1} /\ Same(arriving, x) \in {0, 1} /\ Same(held, x) \in {0, 1}
        BY <3>1, SameFacts
      <3>4. held' = held /\ latest' = latest /\ arriving' = 0
        BY <2>1
      <3> QED BY <3>1, <3>2, <3>3, <3>4
    <2> QED BY <2>5, <2>6, HoldersAfter
  <1>6. CASE DdaEmits
    <2>1. /\ latest # 0 /\ grabbed' = QueuedBehind(latest) /\ refs' = ReleasedBy(Counted(latest, 1), Shed)
          /\ grabTally' = [grabTally EXCEPT !.frames = @ + 1]
          /\ UNCHANGED <<latest, arriving, held>>
      BY <1>6 DEF DdaEmits
    <2>2. latest \in Textures /\ grabTally' \in Tallied /\ grabTally'.made = grabTally.made
      BY <1>0, <2>1, FailsMoves, TallyHolds
    <2>3. /\ grabbed' \in Seq(Textures) /\ Shed \in Textures \union {0}
          /\ \A x \in Textures : CountIn(grabbed', x) = CountIn(grabbed, x) - Same(x, Shed) + Same(x, latest)
          /\ \A i \in DOMAIN grabbed' : grabbed'[i] <= grabTally.made
      <3>1. arriving <= grabTally.made /\ latest <= grabTally.made
        BY <1>0
      <3> QED BY <1>0, <2>1, <2>2, <3>1, PushCounts
    <2>4. Gains(Counted(latest, 1), refs, latest)
      BY <1>0, <2>2, CountedMoves
    <2>5. Loses(refs', Counted(latest, 1), Shed)
      BY <2>1, <2>3, <2>4, ReleasedLoses DEF Gains, Loses
    <2>6. GrabTypes'
      BY <1>0, <2>1, <2>2, <2>3, <2>5 DEF GrabTypes, Gains, Loses
    <2>7. ASSUME NEW x \in Textures
          PROVE  refs'[x] = CountIn(grabbed', x) + (Same(latest', x) + Same(arriving', x) + Same(held', x))
      <3>1. /\ refs[x] = CountIn(grabbed, x) + (Same(latest, x) + Same(arriving, x) + Same(held, x))
            /\ CountIn(grabbed, x) \in Nat /\ x \in Nat \ {0}
        BY HoldersBefore
      <3>2. /\ refs'[x] = Counted(latest, 1)[x] - Same(x, Shed)
            /\ Counted(latest, 1)[x] = refs[x] + Same(x, latest)
            /\ CountIn(grabbed', x) = CountIn(grabbed, x) - Same(x, Shed) + Same(x, latest)
        BY <2>3, <2>4, <2>5 DEF Gains, Loses
      <3>3. /\ Same(x, latest) = Same(latest, x) /\ Same(x, Shed) \in {0, 1}
            /\ Same(latest, x) \in {0, 1} /\ Same(arriving, x) \in {0, 1} /\ Same(held, x) \in {0, 1}
        BY SameFacts
      <3>4. held' = held /\ latest' = latest /\ arriving' = arriving
        BY <2>1
      <3> QED BY <3>1, <3>2, <3>3, <3>4
    <2> QED BY <2>6, <2>7, HoldersAfter
  <1> QED BY <1>1, <1>2, <1>3, <1>4, <1>5, <1>6

(* A duplication that is opened again gives its copy target up, for a new  *)
(* one or for none.                                                        *)
LEMMA TargetsAreCounted ==
  ASSUME GrabTypes, EveryReferenceHasItsHolder, Reopens \/ NotDuplicated \/ NoCopy,
         UNCHANGED <<arriving, grabbed, held>>
  PROVE  GrabTypes' /\ EveryReferenceHasItsHolder'
  <1>0. /\ grabTally \in Tallied /\ grabTally.made \in Nat /\ grabTally.made <= MaxTextures
        /\ latest \in 0 .. grabTally.made /\ arriving \in 0 .. grabTally.made /\ held \in 0 .. grabTally.made
        /\ grabbed \in Seq(Textures) /\ (\A i \in DOMAIN grabbed : grabbed[i] <= grabTally.made)
        /\ refs \in [Textures -> Int] /\ Textures = 1 .. MaxTextures /\ MaxTextures \in Nat
        /\ latest \in Textures \union {0}
    BY GrabConstants DEF GrabTypes, Tallied, Textures
  <1>1. CASE Reopens
    <2>1. /\ latest' = NewTexture /\ refs' = [ReleasedBy(refs, latest) EXCEPT ![NewTexture] = 1]
          /\ grabTally' = [grabTally EXCEPT !.made = @ + 1] /\ CanMake
      BY <1>1 DEF Reopens
    <2>2. /\ NewTexture = grabTally.made + 1 /\ NewTexture \in Textures
          /\ grabTally' \in Tallied /\ grabTally'.made = grabTally.made + 1
      <3>1. grabTally.made + 1 \in 1 .. MaxTextures
        BY <1>0, <2>1 DEF CanMake
      <3>2. grabTally' \in Tallied /\ grabTally'.made = grabTally.made + 1
        <4>1. ASSUME NEW t \in Tallied
              PROVE  [t EXCEPT !.made = @ + 1] \in Tallied /\ [t EXCEPT !.made = @ + 1].made = t.made + 1
          BY DEF Tallied
        <4> QED BY <1>0, <2>1, <4>1
      <3> QED BY <1>0, <3>1, <3>2 DEF NewTexture
    <2>3. Loses(ReleasedBy(refs, latest), refs, latest)
      BY <1>0, ReleasedLoses
    <2>4. refs' \in [Textures -> Int] /\ refs'[NewTexture] = 1
          /\ \A y \in Textures : y # NewTexture => refs'[y] = refs[y] - Same(y, latest)
      BY <2>1, <2>2, <2>3 DEF Loses
    <2>5. GrabTypes'
      BY <1>0, <2>1, <2>2, <2>4 DEF GrabTypes
    <2>6. ASSUME NEW x \in Textures
          PROVE  refs'[x] = CountIn(grabbed', x) + (Same(latest', x) + Same(arriving', x) + Same(held', x))
      <3>1. /\ refs[x] = CountIn(grabbed, x) + (Same(latest, x) + Same(arriving, x) + Same(held, x))
            /\ CountIn(grabbed, x) \in Nat /\ x \in Nat \ {0}
            /\ x > grabTally.made => CountIn(grabbed, x) = 0
        BY HoldersBefore
      <3>2. held' = held /\ latest' = NewTexture /\ arriving' = arriving /\ grabbed' = grabbed
        BY <2>1
      <3>3. CASE x = NewTexture
        <4>1. CountIn(grabbed, x) = 0 /\ Same(NewTexture, x) = 1 /\ Same(arriving, x) = 0 /\ Same(held, x) = 0
          <5>1. x > grabTally.made /\ arriving # x /\ held # x
            BY <1>0, <2>2, <3>3
          <5> QED BY <3>1, <3>3, <5>1, SameFacts
        <4> QED BY <2>4, <3>2, <3>3, <4>1
      <3>4. CASE x # NewTexture
        <4>1. /\ Same(NewTexture, x) = 0 /\ Same(x, latest) = Same(latest, x) /\ Same(latest, x) \in {0, 1}
              /\ Same(arriving, x) \in {0, 1} /\ Same(held, x) \in {0, 1}
          BY <3>4, SameFacts
        <4>2. refs'[x] = refs[x] - Same(x, latest)
          BY <2>4, <3>4
        <4> QED BY <3>1, <3>2, <4>1, <4>2
      <3> QED BY <3>3, <3>4
    <2> QED BY <2>5, <2>6, HoldersAfter
  <1>2. CASE NotDuplicated
    <2>1. UNCHANGED <<latest, refs>> /\ grabTally' \in Tallied /\ grabTally'.made = grabTally.made
      BY <1>0, <1>2, FailsMoves, TallyHolds DEF NotDuplicated
    <2>2. GrabTypes'
      BY <1>0, <2>1 DEF GrabTypes
    <2>3. \A x \in Textures : refs'[x] = CountIn(grabbed', x) + (Same(latest', x) + Same(arriving', x) + Same(held', x))
      BY <2>1, HoldersBefore
    <2> QED BY <2>2, <2>3, HoldersAfter
  <1>3. CASE NoCopy
    <2>1. /\ latest' = 0 /\ refs' = ReleasedBy(refs, latest)
          /\ grabTally' \in Tallied /\ grabTally'.made = grabTally.made
      BY <1>0, <1>3, FailsMoves, TallyHolds DEF NoCopy
    <2>2. Loses(refs', refs, latest)
      BY <1>0, <2>1, ReleasedLoses
    <2>3. GrabTypes'
      BY <1>0, <2>1, <2>2 DEF GrabTypes, Loses
    <2>4. ASSUME NEW x \in Textures
          PROVE  refs'[x] = CountIn(grabbed', x) + (Same(latest', x) + Same(arriving', x) + Same(held', x))
      <3>1. /\ refs[x] = CountIn(grabbed, x) + (Same(latest, x) + Same(arriving, x) + Same(held, x))
            /\ CountIn(grabbed, x) \in Nat /\ x \in Nat \ {0}
        BY HoldersBefore
      <3>2. refs'[x] = refs[x] - Same(x, latest)
        BY <2>2 DEF Loses
      <3>3. /\ Same(0, x) = 0 /\ Same(x, latest) = Same(latest, x)
            /\ Same(latest, x) \in {0, 1} /\ Same(arriving, x) \in {0, 1} /\ Same(held, x) \in {0, 1}
        BY <3>1, SameFacts
      <3>4. latest' = 0 /\ held' = held /\ arriving' = arriving /\ grabbed' = grabbed
        BY <2>1
      <3> QED BY <3>1, <3>2, <3>3, <3>4
    <2> QED BY <2>3, <2>4, HoldersAfter
  <1> QED BY <1>1, <1>2, <1>3

LEMMA OnlookersAreCounted ==
  ASSUME GrabTypes, EveryReferenceHasItsHolder, GrabOnlooks
  PROVE  GrabTypes' /\ EveryReferenceHasItsHolder'
  <1>1. UNCHANGED <<latest, arriving, grabbed, held, refs>>
    BY OnlookersTouchNothing
  <1>2. grabTally \in Tallied
    BY DEF GrabTypes
  <1>3. TallyMovesBy
    BY <1>2, FailsMoves, Zenon
    DEF GrabOnlooks, StartsCapture, CaptureStarted, CaptureStops, WgcOpens, WgcTells, SetsRunning, TargetCloses,
        NoticesClosed, WgcCloses, AccessLost, AcquiresFromNothing, DdaEnds
  <1>4. grabTally' \in Tallied /\ grabTally'.made = grabTally.made
    BY <1>2, <1>3, TallyHolds
  <1>5. GrabTypes'
    BY <1>1, <1>4 DEF GrabTypes
  <1>6. \A x \in Textures : refs'[x] = CountIn(grabbed', x) + (Same(latest', x) + Same(arriving', x) + Same(held', x))
    BY <1>1, HoldersBefore
  <1> QED BY <1>5, <1>6, HoldersAfter

LEMMA StoppedBackendsRest ==
  ASSUME LateArrival = FALSE, GrabTypes, RestsWhenIdle, GrabNext
  PROVE  RestsWhenIdle'
  <1> USE DEF RestsWhenIdle
  <1>1. CASE StartsCapture \/ CaptureStarted \/ CaptureStops
    BY <1>1 DEF StartsCapture, CaptureStarted, CaptureStops
  <1>2. CASE CaptureJoined \/ AcquiresFrame \/ ReleasesFrame
    BY <1>2 DEF CaptureJoined, AcquiresFrame, ReleasesFrame
  <1>3. CASE WgcOpens \/ WgcTells \/ SetsRunning
    BY <1>3 DEF WgcOpens, WgcTells, SetsRunning
  <1>4. CASE TargetCloses \/ NoticesClosed \/ WgcCloses
    BY <1>4 DEF TargetCloses, NoticesClosed, WgcCloses, GoesDead
  <1>5. CASE FrameArrives \/ FrameIsPushed
    BY <1>5 DEF FrameArrives, FrameIsPushed
  <1>6. CASE DdaOpens \/ DdaEmits \/ AccessLost
    BY <1>6 DEF DdaOpens, DdaEmits, AccessLost
  <1>7. CASE ReopensAfterLoss \/ AcquiresFromNothing \/ DdaEnds
    BY <1>7 DEF ReopensAfterLoss, AcquiresFromNothing, DdaEnds
  <1> QED BY <1>1, <1>2, <1>3, <1>4, <1>5, <1>6, <1>7 DEF GrabNext

GrabInv == GrabTypes /\ EveryReferenceHasItsHolder

LEMMA GrabHolds == GrabSpec => []GrabInv
  <1>1. GrabInit => GrabInv
    <2> SUFFICES ASSUME GrabInit PROVE GrabInv
      OBVIOUS
    <2>1. GrabTypes
      BY GrabConstants DEF GrabInit, GrabTypes, Tallied
    <2>2. ASSUME NEW x \in Textures PROVE refs[x] = HoldersOf(x)
      <3>1. x \in Nat \ {0}
        BY DEF Textures
      <3>2. CountIn(grabbed, x) = 0
        BY CountOfNone, <<>> \in Seq(Textures), \A i \in DOMAIN <<>> : <<>>[i] # x DEF GrabInit
      <3>3. Same(0, x) = 0 /\ latest = 0 /\ arriving = 0 /\ held = 0 /\ refs[x] = 0
        BY <3>1, SameFacts DEF GrabInit
      <3>4. HoldersOf(x) = CountIn(grabbed, x) + (Same(latest, x) + Same(arriving, x) + Same(held, x))
        BY HoldersAre
      <3> QED BY <3>2, <3>3, <3>4
    <2> QED BY <2>1, <2>2 DEF GrabInv, EveryReferenceHasItsHolder
  <1>2. GrabInv /\ [GrabNext]_grabVars => GrabInv'
    <2> SUFFICES ASSUME GrabInv, [GrabNext]_grabVars PROVE GrabInv'
      OBVIOUS
    <2> USE DEF GrabInv
    <2>1. CASE UNCHANGED grabVars
      BY <2>1 DEF grabVars, GrabTypes, EveryReferenceHasItsHolder, HoldersOf
    <2>2. CASE GrabOnlooks
      BY <2>2, OnlookersAreCounted
    <2>3. CASE CaptureJoined \/ AcquiresFrame \/ ReleasesFrame \/ FrameArrives \/ FrameIsPushed \/ DdaEmits
      BY <2>3, FramesAreCounted
    <2>4. CASE DdaOpens \/ ReopensAfterLoss
      <3>1. (Reopens \/ NotDuplicated \/ NoCopy) /\ UNCHANGED <<arriving, grabbed, held>>
        BY <2>4 DEF DdaOpens, ReopensAfterLoss
      <3> QED BY <3>1, TargetsAreCounted
    <2> QED BY <2>1, <2>2, <2>3, <2>4, GrabStepsAreKnown
  <1> QED BY <1>1, <1>2, PTL DEF GrabSpec

(* Every reference counted on a texture has a holder, whatever is displaced*)
(* or reopened; and a backend that has stopped holds none and is not live, *)
(* provided no callback outlives the Close of its frame pool.              *)
THEOREM TexturesAreAccountedFor ==
  ASSUME LateArrival = FALSE
  PROVE  GrabSpec => []EveryTextureIsAccountedFor
  <1>1. GrabInit => RestsWhenIdle
    BY DEF GrabInit, RestsWhenIdle
  <1>2. GrabInv /\ RestsWhenIdle /\ [GrabNext]_grabVars => RestsWhenIdle'
    <2> SUFFICES ASSUME GrabInv, RestsWhenIdle, [GrabNext]_grabVars PROVE RestsWhenIdle'
      OBVIOUS
    <2>1. CASE UNCHANGED grabVars
      BY <2>1 DEF grabVars, RestsWhenIdle
    <2> QED BY <2>1, StoppedBackendsRest DEF GrabInv
  <1>3. GrabInv /\ RestsWhenIdle => EveryTextureIsAccountedFor
    <2> SUFFICES ASSUME GrabInv, RestsWhenIdle PROVE EveryTextureIsAccountedFor
      OBVIOUS
    <2>1. \A x \in Textures : refs[x] = HoldersOf(x)
      BY DEF GrabInv, EveryReferenceHasItsHolder
    <2>2. ASSUME user = "idle", NEW x \in Textures PROVE refs[x] = 0
      <3>1. grabbed = <<>> /\ latest = 0 /\ held = 0 /\ arriving = 0 /\ x \in Nat \ {0}
        BY <2>2 DEF RestsWhenIdle, Textures
      <3>2. CountIn(<<>>, x) = 0
        BY CountOfNone, <<>> \in Seq(Textures), \A i \in DOMAIN <<>> : <<>>[i] # x
      <3>3. Same(0, x) = 0
        BY <3>1, SameFacts
      <3>4. HoldersOf(x) = CountIn(grabbed, x) + (Same(latest, x) + Same(arriving, x) + Same(held, x))
        BY HoldersAre
      <3> QED BY <2>1, <3>1, <3>2, <3>3, <3>4
    <2>3. user = "idle" => ~live
      BY DEF RestsWhenIdle
    <2> QED BY <2>1, <2>2, <2>3 DEF EveryTextureIsAccountedFor
  <1> QED BY <1>1, <1>2, <1>3, GrabHolds, PTL DEF GrabSpec

-----------------------------------------------------------------------------
(* The preview                                                             *)

RingTypes == [open : BOOLEAN, index : Nat, slot : [0 .. Slots - 1 -> Halves]]
Offerings == [at : {"stopped", "idle", "dispatch", "handoff", "release", "join"}, slot : Surfaces \union {0}]
Previews  == [at : {"ended", "wait", "first", "second", "index", "release"}, slot : Surfaces \union {0}]
Images    == [seq : Nat, ring : Nat]
Readers   == [at : {"idle", "check", "paint", "painted"}, next : Images, image : Images, paint : Halves]

PreviewTypes ==
  /\ ring \in RingTypes /\ surface \in [Surfaces -> Pictures] /\ offered \in Pictures
  /\ freeSlots \in Seq(Surfaces) /\ pending \in Surfaces \union {0}
  /\ offering \in Offerings /\ preview \in Previews /\ reader \in Readers /\ rings \in Nat

Distinct(fs)   == \A i, j \in DOMAIN fs : fs[i] = fs[j] => i = j
Without(fs, s) == \A i \in DOMAIN fs : fs[i] # s

(* A staging surface is in one place at most, so a picture is not written  *)
(* over while fc-preview reads it; and the ring is open while it runs.     *)
SurfacesApart ==
  /\ Distinct(freeSlots) /\ Without(freeSlots, pending)
  /\ Without(freeSlots, offering.slot) /\ Without(freeSlots, preview.slot)
  /\ pending # 0 => pending # offering.slot /\ pending # preview.slot
  /\ offering.slot # 0 => offering.slot # preview.slot
  /\ offering.slot = 0 <=> offering.at \in {"stopped", "idle", "join"}
  /\ preview.slot = 0 <=> preview.at \in {"ended", "wait"}
  /\ offering.at = "stopped" => preview.at = "ended"
  /\ preview.at # "ended" => ring.open

PicturesAreThere ==
  /\ offering.at = "dispatch" => offered # 0
  /\ offering.at = "handoff" => surface[offering.slot] # 0
  /\ pending # 0 => surface[pending] # 0
  /\ preview.at \in {"first", "second", "index"} => surface[preview.slot] # 0

HoldersInv == PreviewTypes /\ SurfacesApart /\ PicturesAreThere

LEMMA PreviewConstants ==
  /\ Slots \in Nat /\ Slots >= 2 /\ Staging \in Nat \ {0} /\ MaxPictures \in Nat \ {0}
  /\ Surfaces \subseteq Nat \ {0} /\ Pictures \subseteq Nat /\ 0 \in Pictures
  BY PreviewAssumption DEF Surfaces, Pictures

LEMMA RingMoves ==
  ASSUME NEW r \in RingTypes, NEW k \in 0 .. Slots - 1, NEW p \in Pictures, NEW n \in Nat, NEW b \in BOOLEAN
  PROVE  /\ [r EXCEPT !.slot[k].first = p] \in RingTypes
         /\ [r EXCEPT !.slot[k].second = p] \in RingTypes
         /\ [r EXCEPT !.index = n] \in RingTypes /\ [r EXCEPT !.open = b] \in RingTypes
         /\ [r EXCEPT !.open = b, !.index = n] \in RingTypes
  <1>1. r.slot \in [0 .. Slots - 1 -> Halves] /\ r.slot[k] \in Halves
    BY DEF RingTypes
  <1>2. [r.slot[k] EXCEPT !.first = p] \in Halves /\ [r.slot[k] EXCEPT !.second = p] \in Halves
    BY <1>1 DEF Halves
  <1>3. /\ [r.slot EXCEPT ![k] = [r.slot[k] EXCEPT !.first = p]] \in [0 .. Slots - 1 -> Halves]
        /\ [r.slot EXCEPT ![k] = [r.slot[k] EXCEPT !.second = p]] \in [0 .. Slots - 1 -> Halves]
    BY <1>1, <1>2
  <1>4. /\ [r EXCEPT !.slot[k].first = p] = [r EXCEPT !.slot = [r.slot EXCEPT ![k] = [r.slot[k] EXCEPT !.first = p]]]
        /\ [r EXCEPT !.slot[k].second = p] = [r EXCEPT !.slot = [r.slot EXCEPT ![k] = [r.slot[k] EXCEPT !.second = p]]]
    OBVIOUS
  <1>5. ASSUME NEW f \in [0 .. Slots - 1 -> Halves] PROVE [r EXCEPT !.slot = f] \in RingTypes
    BY DEF RingTypes
  <1> QED BY <1>3, <1>4, <1>5 DEF RingTypes

FirstHalf(r, k, p)  == [r EXCEPT !.slot[k].first = p]
SecondHalf(r, k, p) == [r EXCEPT !.slot[k].second = p]

(* Writing half a picture into a slot changes that half of that slot.      *)
LEMMA HalfWritten ==
  ASSUME NEW r \in RingTypes, NEW k \in 0 .. Slots - 1, NEW p \in Pictures
  PROVE  /\ FirstHalf(r, k, p).index = r.index /\ FirstHalf(r, k, p).open = r.open
         /\ FirstHalf(r, k, p).slot[k].first = p
         /\ \A j \in 0 .. Slots - 1 : j # k => FirstHalf(r, k, p).slot[j] = r.slot[j]
         /\ SecondHalf(r, k, p).index = r.index /\ SecondHalf(r, k, p).open = r.open
         /\ SecondHalf(r, k, p).slot[k].second = p
         /\ SecondHalf(r, k, p).slot[k].first = r.slot[k].first
         /\ \A j \in 0 .. Slots - 1 : j # k => SecondHalf(r, k, p).slot[j] = r.slot[j]
  <1>1. r.slot \in [0 .. Slots - 1 -> Halves] /\ r.slot[k] \in Halves
    BY DEF RingTypes
  <1>2. ASSUME NEW h \in Halves
        PROVE  /\ [h EXCEPT !.first = p].first = p /\ [h EXCEPT !.second = p].second = p
               /\ [h EXCEPT !.second = p].first = h.first
    BY <1>2 DEF Halves
  <1>3. ASSUME NEW f \in [0 .. Slots - 1 -> Halves]
        PROVE  /\ [r EXCEPT !.slot = f].slot = f /\ [r EXCEPT !.slot = f].index = r.index
               /\ [r EXCEPT !.slot = f].open = r.open
    BY DEF RingTypes
  <1>4. ASSUME NEW h \in Halves
        PROVE  /\ [r.slot EXCEPT ![k] = h] \in [0 .. Slots - 1 -> Halves]
               /\ [r.slot EXCEPT ![k] = h][k] = h
               /\ \A j \in 0 .. Slots - 1 : j # k => [r.slot EXCEPT ![k] = h][j] = r.slot[j]
    BY <1>1
  <1>5. [r.slot[k] EXCEPT !.first = p] \in Halves /\ [r.slot[k] EXCEPT !.second = p] \in Halves
    BY <1>1 DEF Halves
  <1>6. /\ FirstHalf(r, k, p) = [r EXCEPT !.slot = [r.slot EXCEPT ![k] = [r.slot[k] EXCEPT !.first = p]]]
        /\ SecondHalf(r, k, p) = [r EXCEPT !.slot = [r.slot EXCEPT ![k] = [r.slot[k] EXCEPT !.second = p]]]
    BY DEF FirstHalf, SecondHalf
  <1>7. /\ FirstHalf(r, k, p).slot = [r.slot EXCEPT ![k] = [r.slot[k] EXCEPT !.first = p]]
        /\ FirstHalf(r, k, p).index = r.index /\ FirstHalf(r, k, p).open = r.open
    <2> DEFINE f == [r.slot EXCEPT ![k] = [r.slot[k] EXCEPT !.first = p]]
    <2>1. f \in [0 .. Slots - 1 -> Halves] /\ FirstHalf(r, k, p) = [r EXCEPT !.slot = f]
      BY <1>4, <1>5, <1>6
    <2> HIDE DEF f
    <2>2. FirstHalf(r, k, p).slot = f /\ FirstHalf(r, k, p).index = r.index /\ FirstHalf(r, k, p).open = r.open
      BY <1>3, <2>1
    <2> QED BY <2>2 DEF f
  <1>8. /\ SecondHalf(r, k, p).slot = [r.slot EXCEPT ![k] = [r.slot[k] EXCEPT !.second = p]]
        /\ SecondHalf(r, k, p).index = r.index /\ SecondHalf(r, k, p).open = r.open
    <2> DEFINE f == [r.slot EXCEPT ![k] = [r.slot[k] EXCEPT !.second = p]]
    <2>1. f \in [0 .. Slots - 1 -> Halves] /\ SecondHalf(r, k, p) = [r EXCEPT !.slot = f]
      BY <1>4, <1>5, <1>6
    <2> HIDE DEF f
    <2>2. SecondHalf(r, k, p).slot = f /\ SecondHalf(r, k, p).index = r.index /\ SecondHalf(r, k, p).open = r.open
      BY <1>3, <2>1
    <2> QED BY <2>2 DEF f
  <1>9. /\ FirstHalf(r, k, p).slot[k] = [r.slot[k] EXCEPT !.first = p]
        /\ \A j \in 0 .. Slots - 1 : j # k => FirstHalf(r, k, p).slot[j] = r.slot[j]
    BY <1>4, <1>5, <1>7, Zenon
  <1>10. /\ SecondHalf(r, k, p).slot[k] = [r.slot[k] EXCEPT !.second = p]
         /\ \A j \in 0 .. Slots - 1 : j # k => SecondHalf(r, k, p).slot[j] = r.slot[j]
    BY <1>4, <1>5, <1>8, Zenon
  <1> QED BY <1>1, <1>2, <1>7, <1>8, <1>9, <1>10, Zenon

(* Two pictures less than a lap apart lie in different slots.              *)
LEMMA SlotsDiffer ==
  ASSUME NEW a \in Nat, NEW b \in Nat, a < b, b - a < Slots
  PROVE  /\ a % Slots \in 0 .. Slots - 1 /\ b % Slots \in 0 .. Slots - 1
         /\ a % Slots # b % Slots
  <1> USE PreviewConstants
  <1>1. /\ a = Slots * (a \div Slots) + (a % Slots) /\ b = Slots * (b \div Slots) + (b % Slots)
        /\ a % Slots \in 0 .. Slots - 1 /\ b % Slots \in 0 .. Slots - 1
        /\ a \div Slots \in Nat /\ b \div Slots \in Nat
    OBVIOUS
  <1>2. ASSUME NEW p \in Nat, NEW q \in Nat, NEW r \in Nat PROVE ~(a = Slots * p + r /\ b = Slots * q + r)
    <2>1. CASE q <= p
      <3>0. p - q \in Nat /\ p = q + (p - q)
        BY <2>1
      <3>1. PICK d \in Nat : p = q + d
        BY <3>0
      <3>2. Slots * p = Slots * q + Slots * d /\ Slots * d \in Nat /\ Slots * q \in Nat /\ Slots * p \in Nat
        BY <3>1
      <3> QED BY <3>2
    <2>2. CASE q > p
      <3>0. q - p - 1 \in Nat /\ q = p + 1 + (q - p - 1)
        BY <2>2
      <3>1. PICK d \in Nat : q = p + 1 + d
        BY <3>0
      <3>2. Slots * q = Slots * p + Slots + Slots * d /\ Slots * d \in Nat /\ Slots * q \in Nat /\ Slots * p \in Nat
        BY <3>1
      <3> QED BY <3>2
    <2> QED BY <2>1, <2>2
  <1>3. ASSUME a % Slots = b % Slots PROVE FALSE
    <2>1. PICK p \in Nat : a = Slots * p + (a % Slots)
      BY <1>1
    <2>2. PICK q \in Nat : b = Slots * q + (b % Slots)
      BY <1>1
    <2>3. PICK r \in Nat : r = a % Slots
      BY <1>1
    <2>4. a = Slots * p + r /\ b = Slots * q + r
      BY <1>3, <2>1, <2>2, <2>3, Zenon
    <2> QED BY <1>2, <2>4
  <1> QED BY <1>1, <1>3

(* The free list: what is taken from it is no longer there, and what is    *)
(* put on it is there once.                                                *)
LEMMA FreeTaken ==
  ASSUME NEW fs \in Seq(Surfaces), fs # <<>>, Distinct(fs)
  PROVE  /\ Front(fs) \in Seq(Surfaces) /\ Last(fs) \in Surfaces /\ Distinct(Front(fs))
         /\ Without(Front(fs), Last(fs)) /\ ~Without(fs, Last(fs))
         /\ \A s \in Surfaces \union {0} : Without(fs, s) => Without(Front(fs), s)
  <1>1. Len(fs) \in Nat \ {0} /\ DOMAIN fs = 1 .. Len(fs)
    OBVIOUS
  <1>2. /\ Front(fs) \in Seq(Surfaces) /\ DOMAIN Front(fs) = 1 .. Len(fs) - 1
        /\ \A i \in 1 .. Len(fs) - 1 : Front(fs)[i] = fs[i]
    BY <1>1 DEF Front
  <1>3. Last(fs) = fs[Len(fs)] /\ Len(fs) \in DOMAIN fs
    BY <1>1 DEF Last
  <1>4. fs[Len(fs)] \in Surfaces
    BY <1>1
  <1> QED BY <1>1, <1>2, <1>3, <1>4 DEF Distinct, Without

LEMMA FreeReleased ==
  ASSUME NEW fs \in Seq(Surfaces), NEW s \in Surfaces, Distinct(fs), Without(fs, s)
  PROVE  /\ Append(fs, s) \in Seq(Surfaces) /\ Distinct(Append(fs, s))
         /\ \A t \in Surfaces \union {0} : Without(fs, t) /\ t # s => Without(Append(fs, s), t)
  <1>1. /\ Len(fs) \in Nat /\ DOMAIN fs = 1 .. Len(fs) /\ DOMAIN Append(fs, s) = 1 .. Len(fs) + 1
        /\ \A i \in 1 .. Len(fs) : Append(fs, s)[i] = fs[i]
        /\ Append(fs, s)[Len(fs) + 1] = s /\ Append(fs, s) \in Seq(Surfaces)
    OBVIOUS
  <1> QED BY <1>1 DEF Distinct, Without

LEMMA FreeOfNone ==
  ASSUME NEW fs \in Seq(Surfaces) PROVE Without(fs, 0)
  <1>1. \A i \in DOMAIN fs : fs[i] \in Surfaces
    OBVIOUS
  <1> QED BY <1>1, PreviewConstants DEF Without

LEMMA FreshList ==
  /\ [k \in Surfaces |-> k] \in Seq(Surfaces) /\ Distinct([k \in Surfaces |-> k])
  /\ <<>> \in Seq(Surfaces) /\ Distinct(<<>>)
  <1>1. Staging \in Nat /\ Surfaces = 1 .. Staging
    BY PreviewConstants DEF Surfaces
  <1>2. [k \in 1 .. Staging |-> k] \in Seq(1 .. Staging)
    BY <1>1
  <1> QED BY <1>1, <1>2 DEF Distinct

LEMMA OfferingMoves ==
  ASSUME NEW r \in Offerings, NEW a \in {"stopped", "idle", "dispatch", "handoff", "release", "join"},
         NEW s \in Surfaces \union {0}
  PROVE  /\ [r EXCEPT !.at = a] \in Offerings /\ [r EXCEPT !.at = a, !.slot = s] \in Offerings
         /\ [at |-> a, slot |-> s] \in Offerings /\ r.slot \in Surfaces \union {0}
         /\ [r EXCEPT !.at = a].at = a /\ [r EXCEPT !.at = a].slot = r.slot
         /\ [r EXCEPT !.at = a, !.slot = s].at = a /\ [r EXCEPT !.at = a, !.slot = s].slot = s
  BY DEF Offerings

LEMMA PreviewMoves ==
  ASSUME NEW r \in Previews, NEW a \in {"ended", "wait", "first", "second", "index", "release"},
         NEW s \in Surfaces \union {0}
  PROVE  /\ [r EXCEPT !.at = a] \in Previews /\ [at |-> a, slot |-> s] \in Previews
         /\ r.slot \in Surfaces \union {0}
         /\ [r EXCEPT !.at = a].at = a /\ [r EXCEPT !.at = a].slot = r.slot
  BY DEF Previews

LEMMA ReaderIsTyped ==
  ASSUME NEW r \in Readers
  PROVE  /\ r.next \in Images /\ r.image \in Images /\ r.paint \in Halves
         /\ r.image.seq \in Nat /\ r.next.seq \in Nat /\ r.image.ring \in Nat /\ r.next.ring \in Nat
         /\ (r.image.seq - 1) % Slots \in 0 .. Slots - 1
  <1>1. \A j \in Images : j.seq \in Nat /\ j.ring \in Nat
    BY DEF Images
  <1>2. r.next \in Images /\ r.image \in Images /\ r.paint \in Halves
    BY DEF Readers
  <1>3. \A n \in Int : n % Slots \in 0 .. Slots - 1
    BY PreviewConstants
  <1> QED BY <1>1, <1>2, <1>3

LEMMA ReaderMoves ==
  ASSUME NEW r \in Readers, NEW a \in {"idle", "check", "paint", "painted"}
  PROVE  /\ \A m \in Images, h \in Halves : [r EXCEPT !.at = a, !.next = m, !.paint = h] \in Readers
         /\ \A m, i \in Images : [r EXCEPT !.at = a, !.next = m, !.image = i] \in Readers
         /\ \A h \in Halves : [r EXCEPT !.at = a, !.paint = h] \in Readers
         /\ \A p \in Pictures : [r EXCEPT !.at = a, !.paint.second = p] \in Readers
  <1>1. \A p \in Pictures : [r.paint EXCEPT !.second = p] \in Halves
    BY DEF Readers, Halves
  <1>2. \A h \in Halves : [r EXCEPT !.at = a, !.paint = h] \in Readers
    BY DEF Readers
  <1>3. \A p \in Pictures :
          [r EXCEPT !.at = a, !.paint.second = p] = [r EXCEPT !.at = a, !.paint = [r.paint EXCEPT !.second = p]]
    OBVIOUS
  <1>4. /\ \A m \in Images, h \in Halves : [r EXCEPT !.at = a, !.next = m, !.paint = h] \in Readers
        /\ \A m, i \in Images : [r EXCEPT !.at = a, !.next = m, !.image = i] \in Readers
    BY DEF Readers
  <1> QED BY <1>1, <1>2, <1>3, <1>4

LEMMA RingIsTyped ==
  ASSUME NEW r \in RingTypes
  PROVE  /\ r.index \in Nat /\ r.open \in BOOLEAN
         /\ \A k \in 0 .. Slots - 1 : /\ r.slot[k] \in Halves /\ r.slot[k].first \in Pictures
                                     /\ r.slot[k].second \in Pictures
  BY DEF RingTypes, Halves

LEMMA NextSlotIsOne ==
  ASSUME PreviewTypes PROVE NextSlot \in 0 .. Slots - 1
  <1>1. ring.index \in Nat
    BY RingIsTyped DEF PreviewTypes
  <1> QED BY <1>1, PreviewConstants DEF NextSlot

(* The surfaces a step of the capture thread or of fc-preview works on.    *)
LEMMA SurfacesInHand ==
  ASSUME HoldersInv
  PROVE  /\ offering.at \in {"dispatch", "handoff", "release"} => offering.slot \in Surfaces
         /\ preview.at \in {"first", "second", "index", "release"} => preview.slot \in Surfaces
         /\ preview.slot \in Surfaces => surface[preview.slot] \in Pictures
         /\ offering.at \in {"stopped", "idle", "join"} => offering.slot = 0
         /\ preview.at \in {"ended", "wait"} => preview.slot = 0
         /\ offering.slot \in Surfaces \union {0} /\ preview.slot \in Surfaces \union {0}
  BY DEF HoldersInv, PreviewTypes, SurfacesApart, Offerings, Previews

LEMMA SurfacesStayApart ==
  ASSUME HoldersInv, PreviewNext
  PROVE  HoldersInv'
  <1> USE PreviewConstants, SurfacesInHand DEF HoldersInv
  <1>0. /\ ring \in RingTypes /\ surface \in [Surfaces -> Pictures] /\ offered \in Pictures
        /\ freeSlots \in Seq(Surfaces) /\ pending \in Surfaces \union {0}
        /\ offering \in Offerings /\ preview \in Previews /\ reader \in Readers
        /\ NextSlot \in 0 .. Slots - 1 /\ ring.index \in Nat /\ rings \in Nat
    BY NextSlotIsOne, RingIsTyped DEF PreviewTypes
  <1>00. Blank \in Readers /\ NoImage \in Images /\ NoHalves \in Halves
    BY DEF Blank, NoImage, NoHalves, Readers, Images, Halves
  <1>1. CASE RingOpens
    <2>1. ring' \in RingTypes /\ ring'.open /\ rings' \in Nat
      <3>1. ring' = [ring EXCEPT !.open = TRUE, !.index = 0] /\ rings' = rings + 1
        BY <1>1 DEF RingOpens
      <3>2. [ring EXCEPT !.open = TRUE, !.index = 0] \in RingTypes
        BY <1>0 DEF RingTypes
      <3>3. [ring EXCEPT !.open = TRUE, !.index = 0].open = TRUE
        BY <1>0 DEF RingTypes
      <3> QED BY <1>0, <3>1, <3>2, <3>3
    <2> QED BY <1>0, <1>1, <2>1 DEF RingOpens, PreviewTypes, SurfacesApart, PicturesAreThere
  <1>2. CASE RingCloses
    <2>1. ring' \in RingTypes
      BY <1>0, <1>2, RingMoves DEF RingCloses
    <2> QED BY <1>0, <1>2, <2>1 DEF RingCloses, PreviewTypes, SurfacesApart, PicturesAreThere
  <1>3. CASE WriterStarts
    <2>1. /\ freeSlots' \in Seq(Surfaces) /\ Distinct(freeSlots') /\ Without(freeSlots', 0)
      BY <1>3, FreshList, FreeOfNone DEF WriterStarts
    <2>2. /\ offering' \in Offerings /\ offering'.at = "idle" /\ offering'.slot = 0
          /\ preview' \in Previews /\ preview'.at = "wait" /\ preview'.slot = 0
      BY <1>0, <1>3 DEF WriterStarts, Offerings, Previews
    <2>3. surface' \in [Surfaces -> Pictures] /\ pending' = 0 /\ ring'.open
      BY <1>3 DEF WriterStarts
    <2> QED BY <1>0, <1>3, <2>1, <2>2, <2>3 DEF WriterStarts, PreviewTypes, SurfacesApart, PicturesAreThere
  <1>4. CASE WriterStops \/ WriterJoins
    <2>1. offering' \in Offerings /\ offering'.at \in {"join", "stopped"} /\ offering'.slot = offering.slot
          /\ (offering'.at = "stopped" => preview.at = "ended")
      BY <1>0, <1>4 DEF WriterStops, WriterJoins, Offerings
    <2>2. UNCHANGED <<ring, rings, surface, freeSlots, pending, preview, offered, reader>> /\ offering.at \in {"idle", "join"}
      BY <1>4 DEF WriterStops, WriterJoins
    <2> QED BY <1>0, <2>1, <2>2 DEF PreviewTypes, SurfacesApart, PicturesAreThere
  <1>5. CASE Offer
    <2>1. offered' \in Pictures /\ offered' # 0
      BY <1>0, <1>5 DEF Offer, Pictures
    <2>2. CASE freeSlots = <<>>
      BY <1>0, <1>5, <2>1, <2>2 DEF Offer, PreviewTypes, SurfacesApart, PicturesAreThere
    <2>3. CASE freeSlots # <<>>
      <3>1. /\ freeSlots' = Front(freeSlots) /\ UNCHANGED <<ring, rings, surface, pending, preview, reader>>
            /\ offering' = [offering EXCEPT !.at = "dispatch", !.slot = Last(freeSlots)]
            /\ offering.slot = 0
        BY <1>5, <2>3 DEF Offer
      <3>2. Distinct(freeSlots) /\ Without(freeSlots, pending) /\ Without(freeSlots, preview.slot)
        BY DEF SurfacesApart
      <3>3. /\ freeSlots' \in Seq(Surfaces) /\ Last(freeSlots) \in Surfaces /\ Distinct(freeSlots')
            /\ Without(freeSlots', Last(freeSlots)) /\ ~Without(freeSlots, Last(freeSlots))
            /\ Without(freeSlots', pending) /\ Without(freeSlots', preview.slot)
        BY <1>0, <2>3, <3>1, <3>2, FreeTaken
      <3>4. offering' \in Offerings /\ offering'.at = "dispatch" /\ offering'.slot = Last(freeSlots)
        BY <1>0, <3>1, <3>3 DEF Offerings
      <3> QED BY <1>0, <2>1, <3>1, <3>2, <3>3, <3>4 DEF PreviewTypes, SurfacesApart, PicturesAreThere
    <2> QED BY <2>2, <2>3
  <1>6. CASE Dispatches
    <2>1. /\ offering.slot \in Surfaces /\ surface' = [surface EXCEPT ![offering.slot] = offered]
          /\ offering' \in Offerings /\ offering'.at = "handoff" /\ offering'.slot = offering.slot
          /\ UNCHANGED <<ring, rings, freeSlots, pending, preview, offered, reader>>
      BY <1>0, <1>6, OfferingMoves DEF Dispatches
    <2>2. /\ surface' \in [Surfaces -> Pictures] /\ surface'[offering.slot] = offered /\ offered # 0
          /\ \A s \in Surfaces : s # offering.slot => surface'[s] = surface[s]
      BY <1>0, <1>6, <2>1 DEF Dispatches, PicturesAreThere
    <2> QED BY <1>0, <2>1, <2>2 DEF PreviewTypes, SurfacesApart, PicturesAreThere
  <1>7. CASE DispatchFails \/ ReleasesDisplaced
    <2>1. /\ offering.slot \in Surfaces /\ freeSlots' = Append(freeSlots, offering.slot)
          /\ offering' \in Offerings /\ offering'.at = "idle" /\ offering'.slot = 0
          /\ UNCHANGED <<ring, rings, surface, pending, preview, offered, reader>>
      BY <1>0, <1>7 DEF DispatchFails, ReleasesDisplaced, Released, Offerings
    <2>2. /\ freeSlots' \in Seq(Surfaces) /\ Distinct(freeSlots') /\ Without(freeSlots', 0)
          /\ Without(freeSlots', pending) /\ Without(freeSlots', preview.slot)
      BY <1>0, <2>1, FreeReleased, FreeOfNone DEF SurfacesApart
    <2> QED BY <1>0, <2>1, <2>2 DEF PreviewTypes, SurfacesApart, PicturesAreThere
  <1>8. CASE HandsOff
    <2>1. /\ offering.slot \in Surfaces /\ pending' = offering.slot /\ offering.at = "handoff"
          /\ UNCHANGED <<ring, rings, surface, freeSlots, preview, offered, reader>>
      BY <1>8 DEF HandsOff
    <2>2. /\ offering' \in Offerings /\ offering'.slot = pending
          /\ offering'.at = IF pending = 0 THEN "idle" ELSE "release"
      BY <1>0, <1>8, OfferingMoves DEF HandsOff
    <2> QED BY <1>0, <2>1, <2>2 DEF PreviewTypes, SurfacesApart, PicturesAreThere
  <1>9. CASE Takes
    <2>1. /\ pending \in Surfaces /\ pending' = 0 /\ preview.at = "wait"
          /\ preview' \in Previews /\ preview'.at = "first" /\ preview'.slot = pending
          /\ UNCHANGED <<ring, rings, surface, freeSlots, offering, offered, reader>>
      BY <1>0, <1>9, PreviewMoves DEF Takes
    <2>2. Without(freeSlots', 0)
      BY <1>0, <2>1, FreeOfNone
    <2> QED BY <1>0, <2>1, <2>2 DEF PreviewTypes, SurfacesApart, PicturesAreThere
  <1>10. CASE PreviewEnds \/ ReadBackFails
    <2>1. /\ preview' \in Previews /\ preview'.slot = preview.slot
          /\ \/ preview.at = "wait" /\ preview'.at = "ended"
             \/ preview.at = "first" /\ preview'.at = "release"
          /\ UNCHANGED <<ring, rings, surface, freeSlots, offering, pending, offered, reader>>
      BY <1>0, <1>10 DEF PreviewEnds, ReadBackFails, Previews
    <2> QED BY <1>0, <2>1 DEF PreviewTypes, SurfacesApart, PicturesAreThere
  <1>11. CASE WritesHalf \/ Publishes
    <2>1. /\ preview.slot \in Surfaces /\ surface[preview.slot] \in Pictures
          /\ preview' \in Previews /\ preview'.slot = preview.slot
          /\ preview.at \in {"first", "second", "index"}
          /\ preview'.at \in {"second", "index", "release"}
          /\ UNCHANGED <<rings, surface, freeSlots, offering, pending, offered, reader>>
      BY <1>0, <1>11 DEF WritesHalf, Publishes, Previews
    <2>2. ring' \in RingTypes
      <3>1. /\ [ring EXCEPT !.slot[NextSlot].first = surface[preview.slot]] \in RingTypes
            /\ [ring EXCEPT !.slot[NextSlot].second = surface[preview.slot]] \in RingTypes
        BY <1>0, <2>1, RingMoves
      <3>2. ring.index + 1 \in Nat
        BY <1>0
      <3>3. [ring EXCEPT !.index = ring.index + 1] \in RingTypes
        BY <1>0, <3>2 DEF RingTypes
      <3> QED BY <1>11, <3>1, <3>3 DEF WritesHalf, Publishes
    <2>3. ring'.open = ring.open
      BY <1>0, <1>11 DEF WritesHalf, Publishes, RingTypes
    <2> QED BY <1>0, <2>1, <2>2, <2>3 DEF PreviewTypes, SurfacesApart, PicturesAreThere
  <1>12. CASE ReleasesSurface
    <2>1. /\ preview.slot \in Surfaces /\ freeSlots' = Append(freeSlots, preview.slot)
          /\ preview' \in Previews /\ preview'.at = "wait" /\ preview'.slot = 0 /\ preview.at = "release"
          /\ UNCHANGED <<ring, rings, surface, pending, offering, offered, reader>>
      BY <1>0, <1>12, PreviewMoves DEF ReleasesSurface, Released
    <2>2. /\ freeSlots' \in Seq(Surfaces) /\ Distinct(freeSlots') /\ Without(freeSlots', 0)
          /\ Without(freeSlots', pending) /\ Without(freeSlots', offering.slot)
      <3>1. pending # preview.slot /\ offering.slot # preview.slot
        BY <2>1 DEF SurfacesApart
      <3> QED BY <1>0, <2>1, <3>1, FreeReleased, FreeOfNone DEF SurfacesApart
    <2> QED BY <1>0, <2>1, <2>2 DEF PreviewTypes, SurfacesApart, PicturesAreThere
  <1>13. CASE ReaderSteps
    <2>1. UNCHANGED <<ring, rings, surface, freeSlots, pending, offering, preview, offered>>
      BY <1>13 DEF ReaderSteps, Latest, Rechecks, PaintsHalf, ChannelSet
    <2>2. reader' \in Readers
      <3>1. CASE Latest
        <4>1. [seq |-> ring.index, ring |-> rings] \in Images
          BY <1>0 DEF Images
        <4> QED BY <1>0, <1>00, <3>1, <4>1, ReaderMoves DEF Latest
      <3>2. CASE Rechecks
        <4>1. /\ reader.next \in Images /\ reader.image \in Images
              /\ [reader EXCEPT !.at = "idle", !.next = NoImage, !.image = reader.image] \in Readers
              /\ [reader EXCEPT !.at = "idle", !.next = NoImage, !.image = reader.next] \in Readers
          BY <1>0, <1>00, ReaderIsTyped, ReaderMoves
        <4>2. reader' = [reader EXCEPT !.at = "idle", !.next = NoImage,
                                      !.image = IF Lapped(reader.next.seq) THEN reader.image ELSE reader.next]
          BY <3>2 DEF Rechecks
        <4> QED BY <4>1, <4>2
      <3>3. CASE PaintsHalf
        <4>1. (reader.image.seq - 1) % Slots \in 0 .. Slots - 1
          BY <1>0, ReaderIsTyped
        <4>2. /\ ring.slot[(reader.image.seq - 1) % Slots].first \in Pictures
              /\ ring.slot[(reader.image.seq - 1) % Slots].second \in Pictures
          BY <1>0, <4>1, RingIsTyped
        <4>3. [first |-> ring.slot[(reader.image.seq - 1) % Slots].first, second |-> 0] \in Halves
          BY <4>2 DEF Halves
        <4>4. /\ [reader EXCEPT !.at = "painted", !.paint.second = ring.slot[(reader.image.seq - 1) % Slots].second] \in Readers
              /\ [reader EXCEPT !.at = "paint",
                                !.paint = [first |-> ring.slot[(reader.image.seq - 1) % Slots].first, second |-> 0]] \in Readers
          BY <1>0, <4>2, <4>3, ReaderMoves
        <4> QED BY <3>3, <4>4 DEF PaintsHalf
      <3>4. CASE ChannelSet
        BY <1>00, <3>4 DEF ChannelSet
      <3> QED BY <1>13, <3>1, <3>2, <3>3, <3>4 DEF ReaderSteps
    <2> QED BY <1>0, <2>1, <2>2 DEF PreviewTypes, SurfacesApart, PicturesAreThere
  <1> QED BY <1>1, <1>2, <1>3, <1>4, <1>5, <1>6, <1>7, <1>8, <1>9, <1>10, <1>11, <1>12, <1>13, Zenon
      DEF PreviewNext, OfferSteps, PreviewSteps

WholeIn(r, k)  == r.slot[k].first = r.slot[k].second /\ r.slot[k].first # 0
RecentIn(r)    == \A n \in 1 .. r.index : r.index - n <= Slots - 2 => WholeIn(r, (n - 1) % Slots)

(* What fc-preview has written of the picture it holds, and, within a lap  *)
(* of the index, whole pictures only.                                      *)
RecentAreWhole ==
  /\ preview.at \in {"second", "index"} => ring.slot[NextSlot].first = surface[preview.slot]
  /\ preview.at = "index" => ring.slot[NextSlot].second = surface[preview.slot]
  /\ RecentIn(ring)

(* An image of the present ring is of a picture published in it; and as    *)
(* long as that is within the lap, what has been painted of it is what its *)
(* slot holds.                                                             *)
InReach(r, m) == m.seq \in 1 .. r.index /\ r.index - m.seq <= Slots - 2
IsPublished(r, n, m) == m.ring \in 0 .. n /\ (m.ring = n /\ m.seq # 0 => m.seq \in 1 .. r.index)
PaintsFrom(r, d) ==
  LET slot == r.slot[(d.image.seq - 1) % Slots]
  IN d.paint.first = slot.first /\ (d.at = "painted" => d.paint.second = slot.second)
PaintIsTrue(r, n, d) ==
  /\ IsPublished(r, n, d.next) /\ IsPublished(r, n, d.image)
  /\ d.at \in {"paint", "painted"} => d.image.seq # 0
  /\ d.at \in {"paint", "painted"} /\ d.image.ring = n /\ InReach(r, d.image) => PaintsFrom(r, d)

LapInv == RecentAreWhole /\ PaintIsTrue(ring, rings, reader)

(* A slot within reach of the index is not the one written next.           *)
LEMMA ReachSparesTheNext ==
  ASSUME NEW i \in Nat, NEW n \in 1 .. i, i - n <= Slots - 2
  PROVE  (n - 1) % Slots \in 0 .. Slots - 1 /\ (n - 1) % Slots # i % Slots
  <1>1. n - 1 \in Nat /\ n - 1 < i /\ i - (n - 1) < Slots
    BY PreviewConstants
  <1> QED BY <1>1, SlotsDiffer

(* A ring that agrees with another on the slots in reach serves as well.   *)
LEMMA ReachIsEnough ==
  ASSUME NEW r \in RingTypes, NEW s \in RingTypes, NEW d \in Readers, NEW m \in Nat,
         s.index = r.index,
         \A j \in 0 .. Slots - 1 : j # r.index % Slots => s.slot[j] = r.slot[j]
  PROVE  /\ RecentIn(r) => RecentIn(s)
         /\ PaintIsTrue(r, m, d) => PaintIsTrue(s, m, d)
  <1>1. r.index \in Nat
    BY RingIsTyped
  <1>2. ASSUME NEW n \in 1 .. r.index, r.index - n <= Slots - 2
        PROVE  s.slot[(n - 1) % Slots] = r.slot[(n - 1) % Slots]
    BY <1>1, <1>2, ReachSparesTheNext
  <1>3. RecentIn(r) => RecentIn(s)
    BY <1>2 DEF RecentIn, WholeIn
  <1>4. PaintIsTrue(r, m, d) => PaintIsTrue(s, m, d)
    BY <1>2 DEF PaintIsTrue, IsPublished, InReach, PaintsFrom
  <1> QED BY <1>3, <1>4

(* Publishing leaves the reach behind by one.                              *)
LEMMA PublishedIsWhole ==
  ASSUME NEW r \in RingTypes, NEW s \in RingTypes, NEW d \in Readers, NEW m \in Nat,
         s.index = r.index + 1, s.slot = r.slot, WholeIn(r, r.index % Slots)
  PROVE  /\ RecentIn(r) => RecentIn(s)
         /\ PaintIsTrue(r, m, d) => PaintIsTrue(s, m, d)
  <1>1. r.index \in Nat /\ Slots \in Nat
    BY RingIsTyped, PreviewConstants
  <1>2. ASSUME RecentIn(r), NEW n \in 1 .. s.index, s.index - n <= Slots - 2
        PROVE  WholeIn(s, (n - 1) % Slots)
    <2>1. CASE n = s.index
      <3>1. n - 1 = r.index
        BY <1>1, <2>1
      <3> QED BY <3>1 DEF WholeIn
    <2>2. CASE n # s.index
      <3>1. n \in 1 .. r.index /\ r.index - n <= Slots - 2
        BY <1>1, <1>2, <2>2
      <3>2. WholeIn(r, (n - 1) % Slots)
        BY <1>2, <3>1 DEF RecentIn
      <3> QED BY <3>2 DEF WholeIn
    <2> QED BY <2>1, <2>2
  <1>3. ASSUME NEW i \in Images, IsPublished(r, m, i)
        PROVE  /\ IsPublished(s, m, i)
               /\ i.seq # 0 /\ i.ring = m /\ InReach(s, i) => InReach(r, i)
    BY <1>1, <1>3 DEF IsPublished, InReach, Images
  <1>4. d.next \in Images /\ d.image \in Images
    BY DEF Readers
  <1> QED BY <1>2, <1>3, <1>4 DEF RecentIn, PaintIsTrue, PaintsFrom

LEMMA PicturesStayWhole ==
  ASSUME HoldersInv, HoldersInv', LapInv, PreviewNext
  PROVE  LapInv'
  <1> USE DEF LapInv
  <1>0. /\ ring \in RingTypes /\ ring' \in RingTypes /\ reader \in Readers /\ reader' \in Readers
        /\ NextSlot \in 0 .. Slots - 1 /\ ring.index \in Nat /\ NextSlot = ring.index % Slots
        /\ preview \in Previews /\ offering \in Offerings /\ surface \in [Surfaces -> Pictures]
        /\ rings \in Nat /\ Slots \in Nat
    BY NextSlotIsOne, RingIsTyped, PreviewConstants DEF HoldersInv, PreviewTypes, NextSlot
  <1>1. CASE RingOpens
    <2>1. ring'.index = 0 /\ rings' = rings + 1 /\ UNCHANGED <<preview, reader, surface>>
      BY <1>0, <1>1 DEF RingOpens, RingTypes
    <2>2. preview.at = "ended"
      BY <1>1 DEF RingOpens, HoldersInv, SurfacesApart
    <2>3. RecentIn(ring')
      BY <2>1 DEF RecentIn
    <2>4. PaintIsTrue(ring', rings', reader)
      BY <1>0, <2>1 DEF PaintIsTrue, IsPublished
    <2> QED BY <2>1, <2>2, <2>3, <2>4 DEF RecentAreWhole
  <1>2. CASE RingCloses
    <2>1. ring'.index = ring.index /\ ring'.slot = ring.slot /\ UNCHANGED <<rings, reader, surface, preview>>
      BY <1>0, <1>2 DEF RingCloses, RingTypes
    <2>2. RecentIn(ring') /\ PaintIsTrue(ring', rings, reader)
      BY <1>0, <2>1, ReachIsEnough DEF RecentAreWhole
    <2> QED BY <2>1, <2>2 DEF RecentAreWhole, NextSlot
  <1>3. CASE WriterStarts \/ Takes \/ PreviewEnds \/ ReadBackFails \/ ReleasesSurface
    <2>1. UNCHANGED <<ring, rings, reader>> /\ preview'.at \notin {"second", "index"}
      BY <1>0, <1>3 DEF WriterStarts, Takes, PreviewEnds, ReadBackFails, ReleasesSurface, Previews
    <2> QED BY <2>1 DEF RecentAreWhole
  <1>4. CASE WriterStops \/ Offer \/ OfferSteps
    <2>1. UNCHANGED <<ring, rings, reader, preview>>
      BY <1>4 DEF WriterStops, Offer, OfferSteps, Dispatches, DispatchFails, HandsOff, ReleasesDisplaced, WriterJoins
    <2>2. surface' = surface \/ (offering.at = "dispatch" /\ surface' = [surface EXCEPT ![offering.slot] = offered])
      BY <1>4 DEF WriterStops, Offer, OfferSteps, Dispatches, DispatchFails, HandsOff, ReleasesDisplaced, WriterJoins
    <2>3. ASSUME preview.at \in {"second", "index"} PROVE surface'[preview.slot] = surface[preview.slot]
      <3>1. preview.slot \in Surfaces
        BY <2>3, SurfacesInHand
      <3>2. offering.at = "dispatch" => offering.slot # preview.slot
        BY DEF HoldersInv, SurfacesApart
      <3> QED BY <1>0, <2>2, <3>1, <3>2
    <2> QED BY <2>1, <2>3 DEF RecentAreWhole, NextSlot
  <1>5. CASE WritesHalf
    <2> DEFINE picture == surface[preview.slot]
    <2>1. picture \in Pictures /\ UNCHANGED <<surface, rings, reader>> /\ preview'.slot = preview.slot
      BY <1>0, <1>5, SurfacesInHand DEF WritesHalf, Previews
    <2> HIDE DEF picture
    <2>2. CASE preview.at = "first"
      <3>1. ring' = FirstHalf(ring, NextSlot, picture) /\ preview'.at = "second"
        BY <1>0, <1>5, <2>2 DEF WritesHalf, Previews, FirstHalf, picture
      <3>2. /\ ring'.index = ring.index /\ ring'.slot[NextSlot].first = picture
            /\ \A j \in 0 .. Slots - 1 : j # NextSlot => ring'.slot[j] = ring.slot[j]
        BY <1>0, <2>1, <3>1, HalfWritten
      <3>3. RecentIn(ring') /\ PaintIsTrue(ring', rings, reader)
        BY <1>0, <3>2, ReachIsEnough DEF RecentAreWhole
      <3> QED BY <2>1, <3>1, <3>2, <3>3 DEF RecentAreWhole, NextSlot, picture
    <2>3. CASE preview.at = "second"
      <3>1. ring' = SecondHalf(ring, NextSlot, picture) /\ preview'.at = "index"
        BY <1>0, <1>5, <2>3 DEF WritesHalf, Previews, SecondHalf, picture
      <3>2. /\ ring'.index = ring.index /\ ring'.slot[NextSlot].second = picture
            /\ ring'.slot[NextSlot].first = ring.slot[NextSlot].first
            /\ \A j \in 0 .. Slots - 1 : j # NextSlot => ring'.slot[j] = ring.slot[j]
        BY <1>0, <2>1, <3>1, HalfWritten
      <3>3. RecentIn(ring') /\ PaintIsTrue(ring', rings, reader)
        BY <1>0, <3>2, ReachIsEnough DEF RecentAreWhole
      <3> QED BY <2>1, <2>3, <3>1, <3>2, <3>3 DEF RecentAreWhole, NextSlot, picture
    <2> QED BY <1>5, <2>2, <2>3 DEF WritesHalf
  <1>6. CASE Publishes
    <2>1. /\ ring'.index = ring.index + 1 /\ ring'.slot = ring.slot /\ UNCHANGED <<surface, rings, reader>>
          /\ preview.at = "index" /\ preview'.at = "release"
      BY <1>0, <1>6 DEF Publishes, RingTypes, Previews
    <2>2. surface[preview.slot] # 0
      BY <2>1 DEF HoldersInv, PicturesAreThere
    <2>3. WholeIn(ring, ring.index % Slots)
      BY <1>0, <2>1, <2>2 DEF RecentAreWhole, WholeIn
    <2>4. RecentIn(ring') /\ PaintIsTrue(ring', rings, reader)
      BY <1>0, <2>1, <2>3, PublishedIsWhole DEF RecentAreWhole
    <2> QED BY <2>1, <2>4 DEF RecentAreWhole
  <1>7. CASE ReaderSteps
    <2>1. UNCHANGED <<ring, rings, surface, preview>>
      BY <1>7 DEF ReaderSteps, Latest, Rechecks, PaintsHalf, ChannelSet
    <2>2. PaintIsTrue(ring, rings, reader')
      <3>1. CASE Latest
        <4>1. /\ reader'.at = "check" /\ reader'.image = reader.image
              /\ reader'.next.seq = ring.index /\ reader'.next.ring = rings
          BY <1>0, <3>1 DEF Latest, Readers
        <4> QED BY <1>0, <4>1 DEF PaintIsTrue, IsPublished
      <3>2. CASE Rechecks
        <4>1. /\ reader'.at = "idle" /\ reader'.next = NoImage
              /\ reader'.image \in {reader.image, reader.next}
          BY <1>0, <3>2 DEF Rechecks, Readers
        <4> QED BY <1>0, <4>1 DEF PaintIsTrue, IsPublished, NoImage
      <3>3. CASE PaintsHalf
        <4> DEFINE slot == ring.slot[(reader.image.seq - 1) % Slots]
        <4>1. reader.image.seq # 0 /\ UNCHANGED <<ring, rings>>
          BY <3>3 DEF PaintsHalf
        <4>2. CASE reader.at = "paint"
          <5>1. reader' = [reader EXCEPT !.at = "painted", !.paint.second = slot.second]
            BY <3>3, <4>2 DEF PaintsHalf
          <5>2. slot.second \in Pictures
            <6>1. (reader.image.seq - 1) % Slots \in 0 .. Slots - 1
              BY <1>0, ReaderIsTyped
            <6> QED BY <1>0, <6>1, RingIsTyped
          <5>3. /\ reader'.at = "painted" /\ reader'.next = reader.next /\ reader'.image = reader.image
                /\ reader'.paint.first = reader.paint.first /\ reader'.paint.second = slot.second
            BY <1>0, <5>1, <5>2 DEF Readers, Halves
          <5> QED BY <4>1, <4>2, <5>3 DEF PaintIsTrue, PaintsFrom, InReach
        <4>3. CASE reader.at # "paint"
          <5>1. reader' = [reader EXCEPT !.at = "paint", !.paint = [first |-> slot.first, second |-> 0]]
            BY <3>3, <4>3 DEF PaintsHalf
          <5>2. /\ reader'.at = "paint" /\ reader'.next = reader.next /\ reader'.image = reader.image
                /\ reader'.paint.first = slot.first
            BY <1>0, <5>1 DEF Readers
          <5> QED BY <4>1, <5>2 DEF PaintIsTrue, PaintsFrom
        <4> QED BY <4>2, <4>3
      <3>4. CASE ChannelSet
        BY <1>0, <3>4 DEF ChannelSet, Blank, NoImage, PaintIsTrue, IsPublished
      <3> QED BY <1>7, <3>1, <3>2, <3>3, <3>4 DEF ReaderSteps
    <2> QED BY <2>1, <2>2 DEF RecentAreWhole, NextSlot
  <1> QED BY <1>1, <1>2, <1>3, <1>4, <1>5, <1>6, <1>7, Zenon DEF PreviewNext, PreviewSteps

LEMMA PreviewHolds ==
  PreviewSpec => [](HoldersInv /\ LapInv)
  <1>1. PreviewInit => HoldersInv /\ LapInv
    <2> SUFFICES ASSUME PreviewInit PROVE HoldersInv /\ LapInv
      OBVIOUS
    <2> USE PreviewConstants DEF PreviewInit
    <2>1. /\ ring \in RingTypes /\ ring.index = 0 /\ reader \in Readers /\ reader.at = "idle"
          /\ reader.next = NoImage /\ reader.image = NoImage /\ rings = 0
      BY DEF RingTypes, Readers, Images, Halves, NoSlots, NoHalves, NoImage, Blank
    <2>2. PreviewTypes
      BY <2>1 DEF PreviewTypes, Offerings, Previews
    <2>3. SurfacesApart /\ PicturesAreThere
      BY FreshList DEF SurfacesApart, PicturesAreThere, Without
    <2>4. LapInv
      BY <2>1 DEF LapInv, RecentAreWhole, RecentIn, PaintIsTrue, IsPublished, NoImage
    <2> QED BY <2>2, <2>3, <2>4 DEF HoldersInv
  <1>2. HoldersInv /\ LapInv /\ [PreviewNext]_shown => (HoldersInv /\ LapInv)'
    <2> SUFFICES ASSUME HoldersInv, LapInv, [PreviewNext]_shown PROVE HoldersInv' /\ LapInv'
      OBVIOUS
    <2>1. CASE PreviewNext
      BY <2>1, SurfacesStayApart, PicturesStayWhole
    <2>2. CASE UNCHANGED shown
      BY <2>2 DEF shown, HoldersInv, PreviewTypes, SurfacesApart, PicturesAreThere, LapInv, RecentAreWhole, NextSlot
    <2> QED BY <2>1, <2>2
  <1> QED BY <1>1, <1>2, PTL DEF PreviewSpec

(* What the GUI paints out of a slot that has not been lapped when the     *)
(* painting ends is one picture, however many slots and surfaces there     *)
(* are, however the painting interleaves with the writer, and whatever     *)
(* rings have come and gone under the image before.                        *)
THEOREM PicturesArePaintedWhole ==
  PreviewSpec => []PaintsWholePictures
  <1>1. HoldersInv /\ LapInv => PaintsWholePictures
    <2> SUFFICES ASSUME HoldersInv, LapInv, reader.at = "painted", reader.image.ring = rings,
                        ~Lapped(reader.image.seq)
                 PROVE  reader.paint.first = reader.paint.second /\ reader.paint.first # 0
      BY DEF PaintsWholePictures
    <2>1. ring.index \in Nat /\ reader.image.seq \in Nat /\ Slots \in Nat
      BY RingIsTyped, ReaderIsTyped, PreviewConstants DEF HoldersInv, PreviewTypes
    <2>2. InReach(ring, reader.image)
      BY <2>1 DEF LapInv, PaintIsTrue, IsPublished, InReach, Lapped, LapDistance
    <2>3. PaintsFrom(ring, reader)
      BY <2>2 DEF LapInv, PaintIsTrue
    <2>4. WholeIn(ring, (reader.image.seq - 1) % Slots)
      BY <2>2 DEF LapInv, RecentAreWhole, RecentIn, InReach
    <2> QED BY <2>3, <2>4 DEF PaintsFrom, WholeIn
  <1> QED BY <1>1, PreviewHolds, PTL

(* The preview's state has its types, the rings' reopening included.       *)
THEOREM PreviewTypeCorrect ==
  PreviewSpec => []PreviewTypeOK
  <1>1. PreviewInit => HoldersInv
    <2> SUFFICES ASSUME PreviewInit PROVE HoldersInv
      OBVIOUS
    <2> USE PreviewConstants DEF PreviewInit
    <2>1. ring \in RingTypes /\ reader \in Readers /\ rings \in Nat
      BY DEF RingTypes, Readers, Images, Halves, NoSlots, NoHalves, NoImage, Blank
    <2>2. PreviewTypes
      BY <2>1 DEF PreviewTypes, Offerings, Previews
    <2>3. SurfacesApart /\ PicturesAreThere
      BY FreshList DEF SurfacesApart, PicturesAreThere, Without
    <2> QED BY <2>2, <2>3 DEF HoldersInv
  <1>2. HoldersInv /\ [PreviewNext]_shown => HoldersInv'
    <2> SUFFICES ASSUME HoldersInv, [PreviewNext]_shown PROVE HoldersInv'
      OBVIOUS
    <2>1. CASE PreviewNext
      BY <2>1, SurfacesStayApart
    <2>2. CASE UNCHANGED shown
      BY <2>2 DEF shown, HoldersInv, PreviewTypes, SurfacesApart, PicturesAreThere
    <2> QED BY <2>1, <2>2
  <1>3. HoldersInv => PreviewTypeOK
    <2> SUFFICES ASSUME HoldersInv PROVE PreviewTypeOK
      OBVIOUS
    <2> QED BY DEF HoldersInv, PreviewTypes, PreviewTypeOK, RingTypes, Offerings, Previews, Readers
  <1> QED BY <1>1, <1>2, <1>3, PTL DEF PreviewSpec
=============================================================================
