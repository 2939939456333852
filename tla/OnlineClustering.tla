-------------------------- MODULE OnlineClustering --------------------------
(***************************************************************************)
(* Speaker identities in the streaming program                             *)
(* (src/examples/main_streaming.cpp): each chunk of audio names its        *)
(* speakers by a local slot, OnlineSpeakerClustering::identify maps the    *)
(* slots to global identities by comparing embeddings with the centres of  *)
(* the identities seen so far, and permute_segmentation files each slot's  *)
(* speech under its identity.                                              *)
(*                                                                         *)
(* Embeddings are integer vectors of one length, Unit being its square, so *)
(* that 1 - dot product is Unit - Dot(a, b) without rounding.              *)
(***************************************************************************)
EXTENDS Integers, FiniteSets

CONSTANTS
    NumLocal,       \* NUM_LOCAL_SPEAKERS
    MaxSpeakers,    \* --max_speakers
    EmbedEvery,     \* --embed_every
    Embeddings,     \* what get_embedding may return: pairs of integers
    Unit,           \* the square of their length
    DeltaNew,       \* --delta_new, in units of 1 / Unit
    NoEmbedding,    \* the slot's embedding is NaN: too little or no clean speech
    MaxChunks       \* bound: chunks processed

ASSUME SlotsAssumption == NumLocal \in Nat \ {0} /\ MaxSpeakers \in Nat \ {0}
ASSUME EmbedAssumption == EmbedEvery \in Nat \ {0} /\ MaxChunks \in Nat
ASSUME VectorsAssumption ==
    /\ Embeddings \subseteq Int \X Int
    /\ Unit \in Nat \ {0} /\ DeltaNew \in Int
    /\ NoEmbedding \notin Int \X Int

Local == 0 .. NumLocal - 1
Global == 0 .. MaxSpeakers - 1
None == -1

Dot(a, b) == a[1] * b[1] + a[2] * b[2]
Plus(a, b) == <<a[1] + b[1], a[2] + b[2]>>

\* get_embedding divides by the norm
ASSUME LengthAssumption == \A e \in Embeddings : Dot(e, e) = Unit

(* cosine_distance: one minus the dot product, for vectors of any length *)
Distance(a, b) == Unit - Dot(a, b)

VARIABLES
    initialised,      \* ~centers.empty()
    centers,          \* centers[c]: sum of the embeddings filed under c
    active_centers,   \* the identities that exist
    last_embeddings,  \* the embedding computed last for each local slot
    chunk_index,
    speech,           \* speech[s]: what slot s said in the chunk just processed
    embeddings,       \* embeddings[s]: the embedding used for it
    mapping,          \* mapping[s]: the identity given to it, or None
    filed             \* filed[g]: the slots whose speech went under identity g

vars == <<initialised, centers, active_centers, last_embeddings, chunk_index,
          speech, embeddings, mapping, filed>>

Init ==
    /\ initialised = FALSE
    /\ centers = [c \in Global |-> <<0, 0>>]
    /\ active_centers = {}
    /\ last_embeddings = [s \in Local |-> NoEmbedding]
    /\ chunk_index = 0
    /\ speech = [s \in Local |-> "silent"]
    /\ embeddings = [s \in Local |-> NoEmbedding]
    /\ mapping = [s \in Local |-> None]
    /\ filed = [g \in Global |-> {}]

-----------------------------------------------------------------------------
(* identify, for one chunk: sp[s] says whether slot s is silent, active    *)
(* (its peak reaches tau_active) or long (its mean reaches rho_update too),*)
(* emb[s] is its embedding.  A slot without a usable embedding is passed   *)
(* over everywhere.                                                        *)

Usable(sp, emb) == {s \in Local : sp[s] # "silent" /\ emb[s] # NoEmbedding}
Long(sp, S) == {s \in S : sp[s] = "long"}

(* The bug of scanning one identity past the end of the table. *)
NextCenterPastEnd(Claimants, s) ==
    LET free == (0 .. MaxSpeakers) \ active_centers
        rank == Cardinality({u \in Claimants : u < s})
        nth == {c \in free : Cardinality({d \in free : d < c}) = rank}
    IN  IF s \in Claimants /\ nth # {} THEN CHOOSE c \in nth : TRUE ELSE None

(* get_next_center, called by the members of Claimants in their order: the *)
(* k-th of them gets the k-th free identity, or none.                      *)
NextCenter(Claimants, s) ==
    LET free == Global \ active_centers
        rank == Cardinality({u \in Claimants : u < s})
        nth == {c \in free : Cardinality({d \in free : d < c}) = rank}
    IN  IF s \in Claimants /\ nth # {} THEN CHOOSE c \in nth : TRUE ELSE None

(* The bug of not marking a centre as used once a slot was matched to it. *)
MatchingsSharing(U, emb) ==
    LET near == {p \in U \X active_centers : Distance(emb[p[1]], centers[p[2]]) <= DeltaNew}
        dist(p) == Distance(emb[p[1]], centers[p[2]])
    IN  {M \in SUBSET near :
            /\ \A p, q \in M : p[1] = q[1] => p = q
            /\ \A p \in near \ M : \E q \in M : p[1] = q[1] /\ dist(q) <= dist(p)}

(* The greedy one-to-one assignment of the pairs sorted by distance, up to *)
(* delta_new.  std::sort leaves the order of equal distances open: these   *)
(* are the matchings that some order yields, those in which every pair     *)
(* left out is blocked by one at least as close.                           *)
Matchings(U, emb) ==
    LET near == {p \in U \X active_centers : Distance(emb[p[1]], centers[p[2]]) <= DeltaNew}
        dist(p) == Distance(emb[p[1]], centers[p[2]])
        clash(p, q) == p[1] = q[1] \/ p[2] = q[2]
    IN  {M \in SUBSET near :
            /\ \A p, q \in M : clash(p, q) => p = q
            /\ \A p \in near \ M : \E q \in M : clash(p, q) /\ dist(q) <= dist(p)}

(* Slots left unmatched that may found an identity of their own. *)
Founders(sp, unmatched) == Long(sp, unmatched)

(* The bug of holding the slots left over to delta_new as well. *)
NearestWithinDelta(e, C, ctr) ==
    LET near == {c \in C : Distance(e, ctr[c]) <= DeltaNew}
    IN  IF near = {} THEN None
        ELSE CHOOSE c \in near : \A d \in near : Distance(e, ctr[c]) <= Distance(e, ctr[d])

(* The nearest of the centres known so far, the lowest one of equals. *)
Nearest(e, C, ctr) ==
    IF C = {} THEN None
    ELSE CHOOSE c \in C : \A d \in C :
            \/ Distance(e, ctr[c]) < Distance(e, ctr[d])
            \/ Distance(e, ctr[c]) = Distance(e, ctr[d]) /\ c <= d

(* The first chunk founds an identity for every usable slot. *)
FirstMapping(U) == [s \in Local |-> NextCenter(U, s)]

(* Later chunks: the matching M, then the unmatched slots in their order,  *)
(* each founding an identity or joining the nearest one that exists by     *)
(* then.                                                                   *)
LaterMapping(sp, emb, U, M) ==
    LET unmatched == {s \in U : \A p \in M : p[1] # s}
        founders == Founders(sp, unmatched)
        foundedBy(s) == {u \in founders : u < s /\ NextCenter(founders, u) # None}
        known(s) == active_centers \union {NextCenter(founders, u) : u \in foundedBy(s)}
        ctr(s) == [c \in Global |->
                    IF \E u \in foundedBy(s) : NextCenter(founders, u) = c
                    THEN emb[CHOOSE u \in foundedBy(s) : NextCenter(founders, u) = c]
                    ELSE centers[c]]
    IN  [s \in Local |->
            IF s \notin U THEN None
            ELSE IF s \notin unmatched THEN (CHOOSE p \in M : p[1] = s)[2]
            ELSE IF NextCenter(founders, s) # None THEN NextCenter(founders, s)
            ELSE Nearest(emb[s], known(s), ctr(s))]

(* The centre that slot s's embedding is added to; and the bug of taking   *)
(* the slot's own number for it.                                           *)
OwnCenter(m, s) == s
CenterOf(m, s) == m[s]

(* A centre that starts at v, after the slots in A have added their        *)
(* embeddings one by one.                                                  *)
Raised(v, A, emb) ==
    LET q[k \in 0 .. NumLocal] ==
            IF k = 0 THEN v ELSE IF k - 1 \in A THEN Plus(q[k - 1], emb[k - 1]) ELSE q[k - 1]
    IN  q[NumLocal]

(* The centres afterwards: a new one is its founder's embedding, and every *)
(* long slot then adds its embedding to its centre, founders included.     *)
Founded(emb, m, c) ==
    IF c \in active_centers \/ \A s \in Local : m[s] # c THEN centers[c]
    ELSE emb[CHOOSE s \in Local : m[s] = c /\ \A u \in Local : m[u] = c => s <= u]

Adding(sp, m, c) == {s \in Local : sp[s] = "long" /\ m[s] # None /\ CenterOf(m, s) = c}

UpdatedCenters(sp, emb, m) ==
    [c \in Global |-> Raised(Founded(emb, m, c), Adding(sp, m, c), emb)]

Identify(sp, emb) ==
    LET U == Usable(sp, emb) IN
    /\ initialised' = TRUE
    /\ \/ /\ ~initialised
          /\ mapping' = FirstMapping(U)
          /\ centers' = [c \in Global |->
                IF \E s \in U : mapping'[s] = c
                THEN emb[CHOOSE s \in U : mapping'[s] = c]
                ELSE centers[c]]
       \/ /\ initialised
          /\ \E M \in Matchings(U, emb) : mapping' = LaterMapping(sp, emb, U, M)
          /\ centers' = UpdatedCenters(sp, emb, mapping')
    /\ active_centers' = active_centers \union ({mapping'[s] : s \in Local} \ {None})

(* permute_segmentation with fallback_local: a slot without an identity is *)
(* filed under its own number.                                             *)
FiledUnder(m, s) == IF m[s] = None THEN s ELSE m[s]

Permute(sp) ==
    filed' = [g \in Global |-> {s \in Local : sp[s] # "silent" /\ FiledUnder(mapping', s) = g}]

(* One iteration of the streaming loop as far as identities go.  The       *)
(* embeddings are computed in every EmbedEvery-th chunk, when a slot has   *)
(* enough speech for one; other chunks reuse the last ones.                *)
ProcessChunk(sp, fresh) ==
    /\ chunk_index < MaxChunks
    /\ chunk_index' = chunk_index + 1
    /\ speech' = sp
    /\ IF chunk_index % EmbedEvery = 0
       THEN /\ embeddings' = fresh
            /\ last_embeddings' = [s \in Local |->
                    IF fresh[s] = NoEmbedding THEN last_embeddings[s] ELSE fresh[s]]
       ELSE embeddings' = last_embeddings /\ UNCHANGED last_embeddings
    /\ Identify(sp, embeddings')
    /\ Permute(sp)

(* What a chunk may contain: a silent slot has no embedding. *)
Slots == {<<"silent", NoEmbedding>>}
           \union ({"active", "long"} \X (Embeddings \union {NoEmbedding}))

Done == chunk_index = MaxChunks /\ UNCHANGED vars

Next ==
    \/ Done
    \/ \E x \in [Local -> Slots] :
          ProcessChunk([s \in Local |-> x[s][1]], [s \in Local |-> x[s][2]])

Spec == Init /\ [][Next]_vars
-----------------------------------------------------------------------------
(* Properties.                                                             *)

TypeOK ==
    /\ initialised \in BOOLEAN
    /\ centers \in [Global -> Int \X Int]
    /\ active_centers \subseteq Global
    /\ last_embeddings \in [Local -> Embeddings \union {NoEmbedding}]
    /\ chunk_index \in 0 .. MaxChunks
    /\ speech \in [Local -> {"silent", "active", "long"}]
    /\ embeddings \in [Local -> Embeddings \union {NoEmbedding}]
    /\ mapping \in [Local -> Global \union {None}]
    /\ filed \in [Global -> SUBSET Local]

Named == Usable(speech, embeddings)

(* Two local speakers of one chunk that both talk for long, with usable    *)
(* embeddings, are reported under one identity only when every identity    *)
(* is taken (identify followed by permute_segmentation).                   *)
LongSpeakersApart ==
    \A g \in Global : \A s, u \in filed[g] \intersect Long(speech, Named) :
        s # u => active_centers = Global

(* Once an identity exists, every active speaker with a usable embedding   *)
(* gets one, whatever its distance to all of them; before that, only a     *)
(* speaker too short to found one, or one too many for the table, does     *)
(* not.                                                                    *)
OnceKnownAlwaysNamed ==
    [][\A s \in Named' :
          mapping'[s] = None =>
              /\ active_centers = {}
              /\ speech'[s] = "long" \/ ~initialised => active_centers' = Global]_vars

Alone(s) == Named = {s} /\ speech[s] = "long"

(* Somebody who talks alone and for long in two chunks in a row, with the  *)
(* same voice, keeps the identity: moving the centre towards a speaker     *)
(* never hands that speaker to another centre.                             *)
SoloKeepsIdentity ==
    [][\A s, u \in Local :
          /\ Alone(s) /\ Alone(u)'
          /\ embeddings[s] = embeddings'[u]
          => mapping'[u] = mapping[s]]_vars

(* x = e . a and y = e . b: the cosine of the angle between e and a is     *)
(* greater than that between e and b.                                      *)
GreaterCosine(e, a, b) ==
    LET x == Dot(e, a)
        y == Dot(e, b)
        xx == x * x * Dot(b, b)
        yy == y * y * Dot(a, a)
    IN  /\ a # <<0, 0>> /\ b # <<0, 0>>
        /\ \/ x > 0 /\ y <= 0
           \/ x >= 0 /\ y < 0
           \/ x > 0 /\ y > 0 /\ xx > yy
           \/ x < 0 /\ y < 0 /\ xx < yy

(* "Assigning speaker IDs via greedy cosine-distance clustering"           *)
(* (README.md): somebody alone in a chunk who is given an existing         *)
(* identity gets the one whose centre has the smallest cosine distance.    *)
NearestByCosine ==
    [][\A s \in Local :
          Named' = {s} /\ mapping'[s] \in active_centers =>
              \A d \in active_centers :
                  ~GreaterCosine(embeddings'[s], centers[d], centers[mapping'[s]])]_vars
=============================================================================
