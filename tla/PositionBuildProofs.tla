-------------------------- MODULE PositionBuildProofs ---------------------------
(***************************************************************************)
(* Proofs about PositionBuild, for any quotes, retries and number of runs. *)
(***************************************************************************)
EXTENDS PositionBuild, TLAPS

\* While the issuer is being found out nothing is on record, and a probe that
\* hit is the fund's own vendor or the one its name resembles.
ProbeFindsReal ==
    /\ step \in {"probe", "record"} => registry.issuer = None
    /\ step = "record" => Chain[k] = home \/ (Chain[k] = "ubs" /\ named)

\* The reference that is about to be written belongs to the issuer on record.
RefFollowsIssuer == step = "ref" => registry.issuer = Chain[k] /\ Chain[k] \in NeedsRef

IInv == TypeOK /\ IssuerIsReal /\ ProbeFindsReal /\ RefFollowsIssuer

\* The probes, one by one.
LEMMA ChainIsEight ==
    /\ DOMAIN Chain = 1 .. 8
    /\ Len(Chain) = 8
    /\ Issuers = {"dws", "ishares", "amundi", "ssga", "ubs", "invesco", "landg", "vanguard"}
    /\ \A i \in 1 .. 8 : Chain[i] \in Issuers
PROOF
<1>1. DOMAIN Chain = 1 .. 8 /\ Len(Chain) = 8
  BY DEF Chain
<1>2. \A i \in 1 .. 8 : i = 1 \/ i = 2 \/ i = 3 \/ i = 4 \/ i = 5 \/ i = 6 \/ i = 7 \/ i = 8
  OBVIOUS
<1>3. /\ Chain[1] = "dws" /\ Chain[2] = "ishares" /\ Chain[3] = "amundi" /\ Chain[4] = "ssga"
      /\ Chain[5] = "ubs" /\ Chain[6] = "invesco" /\ Chain[7] = "landg" /\ Chain[8] = "vanguard"
  BY DEF Chain
<1>4. Issuers = {"dws", "ishares", "amundi", "ssga", "ubs", "invesco", "landg", "vanguard"}
  BY <1>1, <1>2, <1>3 DEF Issuers
<1>5. \A i \in 1 .. 8 : Chain[i] \in Issuers
  BY <1>1 DEF Issuers
<1> QED
  BY <1>1, <1>4, <1>5

\* A second registration never takes back what is on record.
LEMMA RegisteredKeeps ==
    ASSUME NEW row, NEW issuer, NEW ref
    PROVE  /\ Registered(row, issuer, ref).known
           /\ Registered(row, issuer, ref).issuer = IF row.issuer = None THEN issuer ELSE row.issuer
           /\ Registered(row, issuer, ref).ref = IF row.ref = None THEN ref ELSE row.ref
PROOF BY DEF Registered

LEMMA InitInv == Init => IInv
PROOF
<1> SUFFICES ASSUME Init PROVE IInv
  OBVIOUS
<1>1. TypeOK
  <2>1. (CHOOSE q \in Quotes : TRUE) \in Quotes
    BY BuildAssumption
  <2>2. cache \in [price : {None} \union Quotes, countries : Splits, sectors : Splits]
    BY <2>1 DEF Init, Splits
  <2>3. pos \in [cls : {None} \union Issuers \union Generic, kept : BOOLEAN,
                 countries : Splits, sectors : Splits, price : {None} \union Quotes]
    BY DEF Init, NoPosition, Splits
  <2>4. registry \in [known : BOOLEAN, issuer : {None} \union Issuers \union Generic,
                      ref : {None} \union NeedsRef]
    BY DEF Init, NoRow
  <2>5. flags \in Flags /\ step \in Steps /\ home \in Homes /\ named \in BOOLEAN
    BY DEF Init, Flags, Generic, Steps
  <2>6. k \in DOMAIN Chain /\ attempt \in 0 .. Retries - 1 /\ runs \in 0 .. MaxRuns
    BY ChainIsEight, BuildAssumption DEF Init
  <2> QED
    BY <2>2, <2>3, <2>4, <2>5, <2>6 DEF TypeOK
<1>2. registry.issuer = None /\ registry.ref = None /\ step = "idle"
  BY DEF Init, NoRow
<1> QED
  BY <1>1, <1>2, BuildAssumption DEF IInv, IssuerIsReal, ProbeFindsReal, RefFollowsIssuer

-----------------------------------------------------------------------------
(* Types                                                                   *)

RegistryType == [known : BOOLEAN, issuer : {None} \union Issuers \union Generic,
                 ref : {None} \union NeedsRef]
PosType == [cls : {None} \union Issuers \union Generic, kept : BOOLEAN,
            countries : Splits, sectors : Splits, price : {None} \union Quotes]
CacheType == [price : {None} \union Quotes, countries : Splits, sectors : Splits]

\* A row with more known about it is still a row.
LEMMA RegisteredType ==
    ASSUME NEW row \in RegistryType,
           NEW issuer \in {None} \union Issuers \union Generic,
           NEW ref \in {None} \union NeedsRef
    PROVE  Registered(row, issuer, ref) \in RegistryType
PROOF BY DEF Registered, RegistryType

LEMMA TypeStep == TypeOK /\ ProbeFindsReal /\ RefFollowsIssuer /\ [Next]_vars => TypeOK'
PROOF
<1> SUFFICES ASSUME TypeOK, ProbeFindsReal, RefFollowsIssuer, [Next]_vars PROVE TypeOK'
  OBVIOUS
<1> USE ChainIsEight, BuildAssumption
<1>r. registry \in RegistryType /\ pos \in PosType /\ cache \in CacheType
  BY DEF TypeOK, RegistryType, PosType, CacheType
<1>n. NoPosition \in PosType
  BY DEF NoPosition, PosType, Splits
<1>k. k \in 1 .. 8 /\ attempt \in 0 .. Retries - 1 /\ 0 \in 0 .. Retries - 1 /\ 1 \in 1 .. 8
  BY DEF TypeOK
<1>q. ASSUME registry' \in RegistryType, pos' \in PosType, cache' \in CacheType, home' = home,
             named' = named, flags' \in Flags, runs' \in 0 .. MaxRuns, step' \in Steps,
             k' \in 1 .. 8, attempt' \in 0 .. Retries - 1
      PROVE  TypeOK'
  BY <1>q DEF TypeOK, RegistryType, PosType, CacheType
<1>1. ASSUME NEW f \in Flags, Start(f) PROVE TypeOK'
  <2>1. registry' \in RegistryType
    BY <1>1, <1>r, RegisteredType DEF Start
  <2>2. pos' \in PosType
    <3>1. CASE registry.issuer \in Issuers
      <4>1. pos' = [NoPosition EXCEPT !.cls = registry.issuer]
        BY <1>1, <3>1 DEF Start
      <4> QED
        BY <4>1, <3>1, <1>n DEF PosType
    <3>2. CASE registry.issuer \notin Issuers
      BY <1>1, <1>n, <3>2 DEF Start
    <3> QED
      BY <3>1, <3>2
  <2>3. runs' \in 0 .. MaxRuns
    BY <1>1 DEF Start, TypeOK
  <2>4. step' \in Steps
    BY <1>1 DEF Start, Steps
  <2> QED
    BY <1>1, <1>q, <1>r, <1>k, <2>1, <2>2, <2>3, <2>4 DEF Start
<1>2. ASSUME Probe PROVE TypeOK'
  <2>1. step' \in Steps /\ k' \in 1 .. 8
    <3>1. PICK up \in BOOLEAN :
            IF Hit(Chain[k], up)
            THEN step' = "record" /\ UNCHANGED k
            ELSE IF k = Len(Chain) THEN step' = "generic" /\ UNCHANGED k
            ELSE k' = k + 1 /\ UNCHANGED step
      BY <1>2 DEF Probe
    <3>2. CASE Hit(Chain[k], up)
      BY <3>1, <3>2, <1>k DEF Steps
    <3>3. CASE ~Hit(Chain[k], up) /\ k = 8
      BY <3>1, <3>3, <1>k DEF Steps
    <3>4. CASE ~Hit(Chain[k], up) /\ k # 8
      BY <3>1, <3>4, <1>k, <1>2 DEF Probe, Steps
    <3> QED
      BY <3>2, <3>3, <3>4
  <2> QED
    BY <1>2, <1>q, <1>r, <1>k, <2>1 DEF Probe, TypeOK
<1>3. ASSUME RecordIssuer PROVE TypeOK'
  <2>1. registry' \in RegistryType
    BY <1>3, <1>r, <1>k DEF RecordIssuer, RegistryType
  <2>2. pos' \in PosType
    BY <1>3, <1>n, <1>k DEF RecordIssuer, PosType, NoPosition
  <2>3. step' \in Steps
    BY <1>3 DEF RecordIssuer, Steps
  <2> QED
    BY <1>3, <1>q, <1>r, <1>k, <2>1, <2>2, <2>3 DEF RecordIssuer, TypeOK
<1>4. ASSUME RecordRef PROVE TypeOK'
  <2>1. registry' \in RegistryType
    <3>1. Chain[k] \in NeedsRef
      BY <1>4 DEF RecordRef, RefFollowsIssuer
    <3> QED
      BY <1>4, <1>r, <3>1, RegisteredType DEF RecordRef
  <2> QED
    BY <1>4, <1>q, <1>r, <1>k, <2>1 DEF RecordRef, TypeOK, Steps
<1>5. ASSUME Countries PROVE TypeOK'
  <2>1. FromCache(cache.countries) \in Splits
    BY <1>r DEF FromCache, CacheType, Splits
  <2>2. \A a : Specialized => Fetched(a, pos.cls) \in Splits
    BY DEF Specialized, Fetched, Splits
  <2>3. \A a : Fetched(a, "justetf") \in Splits
    BY DEF Fetched, Splits
  <2>4. pos' \in PosType
    <3>1. CASE ~flags.geosplit
      BY <1>5, <1>r, <3>1, <2>1 DEF Countries, PosType
    <3>2. CASE flags.geosplit /\ Specialized
      <4>1. PICK a \in CountryAnswers(pos.cls) :
              \/ pos' = [pos EXCEPT !.countries = Fetched(a, pos.cls), !.kept = (a # "raised")]
              \/ pos' = [pos EXCEPT !.countries = "empty", !.kept = TRUE]
        BY <1>5, <3>2 DEF Countries, Specialized, Issuers, Generic
      <4>2. "empty" \in Splits
        BY DEF Splits
      <4> QED
        <5>1. CASE pos' = [pos EXCEPT !.countries = Fetched(a, pos.cls), !.kept = (a # "raised")]
          <6>1. Fetched(a, pos.cls) \in Splits /\ (a # "raised") \in BOOLEAN
            BY <2>2, <3>2
          <6> QED
            BY <5>1, <6>1, <1>r DEF PosType
        <5>2. CASE pos' = [pos EXCEPT !.countries = "empty", !.kept = TRUE]
          BY <5>2, <4>2, <1>r DEF PosType
        <5> QED
          BY <4>1, <5>1, <5>2
    <3>3. CASE flags.geosplit /\ pos.cls = "yfinance"
      BY <1>5, <1>r, <3>3 DEF Countries, Specialized
    <3>4. CASE flags.geosplit /\ pos.cls = "justetf"
      <4>1. PICK a \in Answers : pos' = [pos EXCEPT !.countries = Fetched(a, "justetf")]
        BY <1>5, <3>4 DEF Countries, Specialized
      <4> QED
        BY <4>1, <1>r, <2>3 DEF PosType
    <3> QED
      BY <1>5, <3>1, <3>2, <3>3, <3>4 DEF Countries
  <2> QED
    BY <1>5, <1>q, <1>r, <1>k, <2>4 DEF Countries, TypeOK, Steps
<1>6. ASSUME Sectors PROVE TypeOK'
  <2>1. FromCache(cache.sectors) \in Splits
    BY <1>r DEF FromCache, CacheType, Splits
  <2>2. \A a : Specialized => Fetched(a, pos.cls) \in Splits
    BY DEF Specialized, Fetched, Splits
  <2>3. \A a : Fetched(a, "justetf") \in Splits
    BY DEF Fetched, Splits
  <2>4. pos' \in PosType
    <3>1. CASE ~flags.sectorsplit
      BY <1>6, <1>r, <3>1, <2>1 DEF Sectors, PosType
    <3>2. CASE flags.sectorsplit /\ Specialized
      <4>1. \/ \E a : pos' = [pos EXCEPT !.sectors = Fetched(a, pos.cls)]
            \/ \E g : pos' = [pos EXCEPT !.sectors = Fetched(g, "justetf")]
        BY <1>6, <3>2 DEF Sectors, Specialized
      <4>2. CASE \E a : pos' = [pos EXCEPT !.sectors = Fetched(a, pos.cls)]
        BY <4>2, <1>r, <2>2, <3>2 DEF PosType
      <4>3. CASE \E g : pos' = [pos EXCEPT !.sectors = Fetched(g, "justetf")]
        BY <4>3, <1>r, <2>3 DEF PosType
      <4> QED
        BY <4>1, <4>2, <4>3
    <3>3. CASE flags.sectorsplit /\ pos.cls = "yfinance"
      BY <1>6, <1>r, <3>3 DEF Sectors, Specialized
    <3>4. CASE flags.sectorsplit /\ pos.cls = "justetf"
      <4>1. PICK a \in Answers : pos' = [pos EXCEPT !.sectors = Fetched(a, "justetf")]
        BY <1>6, <3>4 DEF Sectors, Specialized
      <4> QED
        BY <4>1, <1>r, <2>3 DEF PosType
    <3> QED
      BY <1>6, <3>1, <3>2, <3>3, <3>4 DEF Sectors
  <2> QED
    BY <1>6, <1>q, <1>r, <1>k, <2>4 DEF Sectors, TypeOK, Steps
<1>7. ASSUME Quote PROVE TypeOK'
  <2>1. pos' \in PosType
    <3>1. CASE flags.prices \/ cache.price = None
      <4>1. PICK q \in Quotes \union {None} :
              pos' = [pos EXCEPT !.price = IF q = None THEN cache.price ELSE q]
        BY <1>7, <3>1 DEF Quote
      <4> QED
        BY <4>1, <1>r DEF PosType, CacheType
    <3>2. CASE ~(flags.prices \/ cache.price = None)
      BY <1>7, <3>2, <1>r DEF Quote, PosType, CacheType
    <3> QED
      BY <3>1, <3>2
  <2> QED
    BY <1>7, <1>q, <1>r, <1>k, <2>1 DEF Quote, TypeOK, Steps
<1>8. ASSUME Reject PROVE TypeOK'
  BY <1>8, <1>q, <1>r, <1>k DEF Reject, TypeOK, Steps
<1>9. ASSUME BuildGeneric PROVE TypeOK'
  <2>1. pos' \in PosType
    BY <1>9, <1>n DEF BuildGeneric, TypeOK, Flags, PosType, NoPosition
  <2> QED
    BY <1>9, <1>q, <1>r, <1>k, <2>1 DEF BuildGeneric, TypeOK, Steps
<1>10. ASSUME Accept PROVE TypeOK'
  <2>1. registry' \in RegistryType
    <3>1. pos.cls \in {None} \union Issuers \union Generic
      BY <1>r DEF PosType
    <3> QED
      BY <1>10, <1>r, <3>1, RegisteredType DEF Accept
  <2> QED
    BY <1>10, <1>q, <1>r, <1>k, <2>1 DEF Accept, TypeOK, Steps
<1>11. ASSUME Save PROVE TypeOK'
  <2>1. cache' \in CacheType
    BY <1>11, <1>r DEF Save, PosType, CacheType
  <2> QED
    BY <1>11, <1>q, <1>r, <1>k, <1>n, <2>1 DEF Save, TypeOK, Steps
<1>12. ASSUME Retry PROVE TypeOK'
  <2>1. attempt' \in 0 .. Retries - 1
    BY <1>12, <1>k DEF Retry
  <2> QED
    BY <1>12, <1>q, <1>r, <1>k, <2>1 DEF Retry, TypeOK
<1>13. ASSUME Kill PROVE TypeOK'
  BY <1>13, <1>q, <1>r, <1>k, <1>n DEF Kill, TypeOK, Steps
<1>14. ASSUME UNCHANGED vars PROVE TypeOK'
  BY <1>14, <1>q, <1>r, <1>k DEF vars, TypeOK
<1> QED
  BY <1>1, <1>2, <1>3, <1>4, <1>5, <1>6, <1>7, <1>8, <1>9, <1>10, <1>11, <1>12, <1>13, <1>14
  DEF Next, Build

-----------------------------------------------------------------------------
(* What the registry says                                                  *)

\* A probe records only what it found.
LEMMA ProbeStep == IInv /\ TypeOK' /\ [Next]_vars => ProbeFindsReal'
PROOF
<1> SUFFICES ASSUME IInv, TypeOK', [Next]_vars PROVE ProbeFindsReal'
  OBVIOUS
<1> USE DEF IInv, ProbeFindsReal
<1>1. ASSUME NEW f \in Flags, Start(f) PROVE ProbeFindsReal'
  <2>1. step' = "probe" => registry.issuer = None
    BY <1>1 DEF Start
  <2>2. registry'.issuer = IF registry.issuer = None THEN None ELSE registry.issuer
    BY <1>1, RegisteredKeeps DEF Start
  <2>3. step' # "record"
    BY <1>1 DEF Start
  <2> QED
    BY <2>1, <2>2, <2>3
<1>2. ASSUME Probe PROVE ProbeFindsReal'
  <2>1. registry.issuer = None /\ UNCHANGED <<registry, home, named>>
    BY <1>2 DEF Probe
  <2>2. step' = "record" => \E up \in BOOLEAN : Hit(Chain[k], up) /\ UNCHANGED k
    BY <1>2, ChainIsEight DEF Probe
  <2>3. ASSUME NEW up \in BOOLEAN, Hit(Chain[k], up)
        PROVE  Chain[k] = home \/ (Chain[k] = "ubs" /\ named)
    BY <2>3 DEF Hit
  <2> QED
    BY <2>1, <2>2, <2>3
<1>3. CASE RecordIssuer
  BY <1>3 DEF RecordIssuer
<1>4. CASE RecordRef \/ Countries \/ Sectors \/ Quote \/ Reject \/ BuildGeneric \/ Accept \/ Save \/ Kill
  BY <1>4 DEF RecordRef, Countries, Sectors, Quote, Reject, BuildGeneric, Accept, Save, Kill
<1>5. CASE Retry
  BY <1>5 DEF Retry, AsksJustETF
<1>6. CASE UNCHANGED vars
  BY <1>6 DEF vars
<1> QED
  BY <1>1, <1>2, <1>3, <1>4, <1>5, <1>6 DEF Next, Build

\* The issuer stays while its reference is due.
LEMMA RefStep == IInv /\ TypeOK' /\ [Next]_vars => RefFollowsIssuer'
PROOF
<1> SUFFICES ASSUME IInv, TypeOK', [Next]_vars PROVE RefFollowsIssuer'
  OBVIOUS
<1> USE DEF IInv, RefFollowsIssuer
<1>1. ASSUME NEW f \in Flags, Start(f) PROVE RefFollowsIssuer'
  BY <1>1 DEF Start
<1>2. CASE Probe
  BY <1>2 DEF Probe
<1>3. CASE RecordIssuer
  <2>1. registry'.issuer = Chain[k] /\ UNCHANGED k
    BY <1>3 DEF RecordIssuer, TypeOK
  <2> QED
    BY <1>3, <2>1 DEF RecordIssuer
<1>4. CASE RecordRef \/ Countries \/ Sectors \/ Quote \/ Reject \/ BuildGeneric \/ Accept \/ Save \/ Kill
  BY <1>4 DEF RecordRef, Countries, Sectors, Quote, Reject, BuildGeneric, Accept, Save, Kill
<1>5. CASE Retry
  BY <1>5 DEF Retry, AsksJustETF
<1>6. CASE UNCHANGED vars
  BY <1>6 DEF vars
<1> QED
  BY <1>1, <1>2, <1>3, <1>4, <1>5, <1>6 DEF Next, Build

\* Three steps write to the registry.
LEMMA RegistryWriters ==
    [Next]_vars => \/ UNCHANGED <<registry, home, named>>
                   \/ \E f \in Flags : Start(f)
                   \/ RecordIssuer \/ RecordRef \/ Accept
PROOF
<1> SUFFICES ASSUME [Next]_vars, ~(\E f \in Flags : Start(f)), ~RecordIssuer, ~RecordRef, ~Accept
             PROVE  UNCHANGED <<registry, home, named>>
  OBVIOUS
<1>1. CASE Probe \/ Countries \/ Sectors \/ Quote \/ Reject \/ BuildGeneric \/ Save \/ Retry \/ Kill
  BY <1>1 DEF Probe, Countries, Sectors, Quote, Reject, BuildGeneric, Save, Retry, Kill
<1>2. CASE UNCHANGED vars
  BY <1>2 DEF vars
<1> QED
  BY <1>1, <1>2 DEF Next, Build

\* What each of them does to the row.
LEMMA RegistryStep ==
    ASSUME IInv, [Next]_vars
    PROVE  /\ UNCHANGED <<home, named>>
           /\ registry.issuer # None => registry'.issuer = registry.issuer
           /\ registry.ref # None => registry'.ref = registry.ref
           /\ registry'.issuer \in Issuers =>
                \/ registry'.issuer = registry.issuer
                \/ registry'.issuer = home \/ (registry'.issuer = "ubs" /\ named)
           /\ registry'.ref # None =>
                registry'.ref = registry.ref \/ registry'.ref = registry'.issuer
PROOF
<1>1. CASE UNCHANGED <<registry, home, named>>
  BY <1>1
<1>2. ASSUME NEW f \in Flags, Start(f) PROVE UNCHANGED <<home, named>> /\ registry'.issuer = registry.issuer /\ registry'.ref = registry.ref
  BY <1>2, RegisteredKeeps DEF Start
<1>3. ASSUME RecordIssuer
      PROVE  /\ UNCHANGED <<home, named>> /\ registry.issuer = None
             /\ registry'.issuer = Chain[k] /\ registry'.ref = registry.ref
             /\ Chain[k] = home \/ (Chain[k] = "ubs" /\ named)
  BY <1>3 DEF RecordIssuer, IInv, ProbeFindsReal, TypeOK
<1>4. ASSUME RecordRef
      PROVE  /\ UNCHANGED <<home, named>> /\ registry'.issuer = registry.issuer
             /\ registry'.ref = IF registry.ref = None THEN registry.issuer ELSE registry.ref
  <2>1. registry.issuer = Chain[k]
    BY <1>4 DEF RecordRef, IInv, RefFollowsIssuer
  <2> QED
    BY <1>4, <2>1, RegisteredKeeps DEF RecordRef
<1>5. ASSUME Accept
      PROVE  /\ UNCHANGED <<home, named>> /\ registry'.ref = registry.ref
             /\ \/ registry'.issuer = registry.issuer
                \/ registry.issuer = None /\ registry'.issuer \notin Issuers
  <2>1. CASE Specialized
    BY <1>5, <2>1 DEF Accept
  <2>2. CASE ~Specialized
    BY <1>5, <2>2, RegisteredKeeps DEF Accept, Specialized
  <2> QED
    BY <2>1, <2>2
<1> QED
  BY <1>1, <1>2, <1>3, <1>4, <1>5, RegistryWriters

LEMMA InvStep == IInv /\ [Next]_vars => IInv'
PROOF
<1> SUFFICES ASSUME IInv, [Next]_vars PROVE IInv'
  OBVIOUS
<1>1. TypeOK'
  BY TypeStep DEF IInv
<1>2. ProbeFindsReal' /\ RefFollowsIssuer'
  BY <1>1, ProbeStep, RefStep
<1>3. IssuerIsReal'
  <2>1. registry.ref # None => registry.ref = registry.issuer /\ registry.issuer # None
    BY DEF IInv, IssuerIsReal
  <2>2. registry.issuer \in Issuers => registry.issuer = home \/ (registry.issuer = "ubs" /\ named)
    BY DEF IInv, IssuerIsReal
  <2> QED
    BY <2>1, <2>2, RegistryStep DEF IssuerIsReal
<1> QED
  BY <1>1, <1>2, <1>3 DEF IInv

LEMMA Invariance == Spec => []IInv
PROOF
<1>1. Init => IInv
  BY InitInv
<1>2. IInv /\ [Next]_vars => IInv'
  BY InvStep
<1> QED
  BY <1>1, <1>2, PTL DEF Spec

-----------------------------------------------------------------------------
(* The results                                                             *)

\* The registry and cache rows and the position under construction keep their
\* types: every split comes from a vendor, from JustETF or from the cache, and
\* no fetch is retried too often (factory, Position.__init__).
THEOREM TypeCorrect == Spec => []TypeOK
PROOF
<1>1. IInv => TypeOK
  BY DEF IInv
<1> QED
  BY <1>1, Invariance, PTL

\* The issuer on record is the fund's own vendor, or UBS for a name that looks
\* like it, whatever failed or was killed on the way (_probe_issuer_for_isin,
\* set_issuer_for_isin, register_isin).
THEOREM RealIssuer == Spec => []IssuerIsReal
PROOF
<1>1. IInv => IssuerIsReal
  BY DEF IInv
<1> QED
  BY <1>1, Invariance, PTL

\* No run changes an issuer or a reference that is on record.
THEOREM DecisionsStay == Spec => DecidedStays
PROOF
<1>1. IInv /\ [Next]_vars =>
        [/\ registry.issuer # None => registry'.issuer = registry.issuer
         /\ registry.ref # None => registry'.ref = registry.ref]_vars
  BY RegistryStep
<1> QED
  BY <1>1, Invariance, PTL DEF Spec, DecidedStays

\* A split changes in the cache only when it was asked for; a price is never
\* lost (save_position_in_cache).
THEOREM SavesWhatWasAsked == Spec => OnlyWhatWasAsked
PROOF
<1> DEFINE Asked ==
      /\ cache'.countries # cache.countries => flags.geosplit
      /\ cache'.sectors # cache.sectors => flags.sectorsplit
      /\ cache.price # None => cache'.price # None
<1>1. [Next]_vars => Asked
  <2> SUFFICES ASSUME [Next]_vars PROVE Asked
    OBVIOUS
  <2>1. CASE Save
    BY <2>1 DEF Save
  <2>2. ASSUME NEW f \in Flags, Start(f) PROVE UNCHANGED cache
    BY <2>2 DEF Start
  <2>3. CASE Probe \/ RecordIssuer \/ RecordRef \/ Countries \/ Sectors \/ Quote \/ Reject
             \/ BuildGeneric \/ Accept \/ Retry \/ Kill
    BY <2>3 DEF Probe, RecordIssuer, RecordRef, Countries, Sectors, Quote, Reject,
                BuildGeneric, Accept, Retry, Kill
  <2>4. CASE UNCHANGED vars
    BY <2>4 DEF vars
  <2> QED
    BY <2>1, <2>2, <2>3, <2>4 DEF Next, Build
<1>2. [Next]_vars => [Asked]_vars
  BY <1>1
<1> QED
  BY <1>2, PTL DEF Spec, OnlyWhatWasAsked
=============================================================================
