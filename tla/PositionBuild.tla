----------------------------- MODULE PositionBuild -----------------------------
(***************************************************************************)
(* Building the position of one ISIN (position/factory.py), run after run: *)
(* find out its issuer, fetch its country and sector splits and its quote  *)
(* from the issuer's site, fall back to JustETF or Yahoo, and write what   *)
(* was fetched to the cache.                                               *)
(*                                                                         *)
(* A split is reduced to where its rows came from, a quote to a number.    *)
(* The registry and the cache are tables of the database, which commits    *)
(* every put at once: a run that is killed leaves behind what it wrote.    *)
(***************************************************************************)
EXTENDS Naturals, Sequences

CONSTANTS
    None,
    Homes,      \* bound: who may be behind the ISIN
    Quotes,     \* what a quote may be
    Retries,    \* JustETFPosition._RETRIES
    MaxRuns     \* bound: runs

Generic == {"justetf", "yfinance"}
Chain == <<"dws", "ishares", "amundi", "ssga", "ubs", "invesco", "landg", "vanguard">>
Issuers == {Chain[k] : k \in DOMAIN Chain}

ASSUME BuildAssumption ==
    /\ Homes \subseteq Issuers \union {"nobody"}
    /\ Retries \in Nat \ {0} /\ MaxRuns \in Nat
    /\ Quotes # {} /\ None \notin Quotes
    /\ None \notin Issuers \union Generic

VARIABLES
    home,       \* whose product the ISIN is
    named,      \* its name looks like UBS
    registry,   \* its row in the ISIN registry
    cache,      \* its row in the cache
    flags,      \* the --fetch-... flags and position_source of the run
    runs,       \* runs begun
    step,       \* where the build is
    k,          \* the probe that is next
    attempt,    \* retries of the fetch at hand
    pos         \* the position under construction

vars == <<home, named, registry, cache, flags, runs, step, k, attempt, pos>>

Splits == {None, "empty", "old"} \union Issuers \union {"justetf"}

NoRow == [known |-> FALSE, issuer |-> None, ref |-> None]
NoPosition == [cls |-> None, kept |-> FALSE, countries |-> None, sectors |-> None,
               price |-> None]
Flags == [prices : BOOLEAN, geosplit : BOOLEAN, sectorsplit : BOOLEAN, source : Generic]

Init ==
    /\ home \in Homes
    /\ named \in BOOLEAN
    /\ registry = NoRow
    /\ cache \in {[price |-> None, countries |-> None, sectors |-> None],
                  [price |-> CHOOSE q \in Quotes : TRUE,
                   countries |-> "old", sectors |-> "old"]}
    /\ flags = [prices |-> FALSE, geosplit |-> FALSE, sectorsplit |-> FALSE,
                source |-> "justetf"]
    /\ runs = 0
    /\ step = "idle"
    /\ k = 1 /\ attempt = 0
    /\ pos = NoPosition

-----------------------------------------------------------------------------
(* Whose product is it?                                                    *)

\* Mutant: a row is overwritten when it is registered again.
MutRegistered(row, issuer, ref) == [known |-> TRUE, issuer |-> issuer, ref |-> ref]

\* register_isin: fills only what is still missing.
Registered(row, issuer, ref) ==
    [known |-> TRUE,
     issuer |-> IF row.issuer = None THEN issuer ELSE row.issuer,
     ref |-> IF row.ref = None THEN ref ELSE row.ref]

\* The factory reads the registry: a decided issuer is used as it is, an
\* unknown one is probed for.
Start(f) ==
    /\ step = "idle" /\ runs < MaxRuns
    /\ runs' = runs + 1
    /\ flags' = f
    /\ registry' = Registered(registry, None, None)
    /\ k' = 1 /\ attempt' = 0
    /\ IF registry.issuer \in Issuers
       THEN step' = "countries" /\ pos' = [NoPosition EXCEPT !.cls = registry.issuer]
       ELSE /\ step' = IF registry.issuer = None THEN "probe" ELSE "generic"
            /\ pos' = NoPosition
    /\ UNCHANGED <<home, named, cache>>

NeedsRef == {"ishares", "ssga", "vanguard"}

\* <vendor>_product_url_exists: a site that does not answer counts as no.  The
\* reference is the registry's or is looked up at the site.
Hit(v, up) ==
    \/ v = home /\ up /\ (v \in NeedsRef => registry.ref \in {None, v})
    \/ v = "ubs" /\ named

Probe ==
    /\ step = "probe"
    /\ \E up \in BOOLEAN :
         IF Hit(Chain[k], up)
         THEN step' = "record" /\ UNCHANGED k
         ELSE IF k = Len(Chain) THEN step' = "generic" /\ UNCHANGED k
         ELSE k' = k + 1 /\ UNCHANGED step
    /\ UNCHANGED <<home, named, registry, cache, flags, runs, attempt, pos>>

\* Mutant: every unknown issuer is taken for the last that was probed.
MutRecordIssuer ==
    /\ step = "record"
    /\ registry' = [registry EXCEPT !.issuer = Chain[Len(Chain)]]
    /\ step' = IF Chain[k] \in NeedsRef THEN "ref" ELSE "countries"
    /\ pos' = [NoPosition EXCEPT !.cls = Chain[k]]
    /\ UNCHANGED <<home, named, cache, flags, runs, k, attempt>>

\* set_issuer_for_isin.
RecordIssuer ==
    /\ step = "record"
    /\ registry' = [registry EXCEPT !.issuer = Chain[k]]
    /\ step' = IF Chain[k] \in NeedsRef THEN "ref" ELSE "countries"
    /\ pos' = [NoPosition EXCEPT !.cls = Chain[k]]
    /\ UNCHANGED <<home, named, cache, flags, runs, k, attempt>>

\* The product reference follows in a second write.
RecordRef ==
    /\ step = "ref"
    /\ registry' = Registered(registry, None, Chain[k])
    /\ step' = "countries"
    /\ UNCHANGED <<home, named, cache, flags, runs, k, attempt, pos>>

-----------------------------------------------------------------------------
(* The splits.  A vendor's answer has rows or none, or the fetch raises;   *)
(* "generic" hands over to JustETF.                                        *)

Answers == {"rows", "none", "raised"}

\* Holdings of the DWS product page, which is asked for its slug each time.
DwsSectors == {"rows", "generic", "raised"}

\* The CSV of the countries, or JustETF when there is none.
IsharesSectors(kept) == IF kept THEN {"rows", "none"} ELSE {"generic"}

\* One POST asks for both splits when both are wanted, and is repeated when its
\* answer lacked one.
AmundiSectors == {"rows", "generic", "raised"}

\* The product page of the countries, or a second GET of it.
SsgaSectors(kept) ==
    IF kept THEN {"rows", "generic", "raised"}
    ELSE IF registry.ref = None THEN {"raised"} ELSE {"rows", "generic", "raised"}

\* No sectors of its own.
UbsSectors == {"generic"}

InvescoSectors == {"rows", "generic", "raised"}
LandgSectors == {"rows", "generic", "raised"}

\* The fund of the countries; its reference is looked up if need be.
VanguardSectors(kept) == IF kept THEN {"rows", "generic"} ELSE {"rows", "generic", "raised"}

SectorAnswers(v, kept) ==
    CASE v = "dws" -> DwsSectors
      [] v = "ishares" -> IsharesSectors(kept)
      [] v = "amundi" -> AmundiSectors
      [] v = "ssga" -> SsgaSectors(kept)
      [] v = "ubs" -> UbsSectors
      [] v = "invesco" -> InvescoSectors
      [] v = "landg" -> LandgSectors
      [] v = "vanguard" -> VanguardSectors(kept)

\* iShares and SSGA need the reference of the registry, and a site knows only
\* its own products.
CountryAnswers(v) ==
    IF v \in {"ishares", "ssga"} /\ registry.ref = None THEN {"raised"}
    ELSE IF v # home THEN {"none", "raised"} ELSE Answers

Specialized == pos.cls \in Issuers

\* The cached rows are taken when the flag is off.
FromCache(split) == IF split = None THEN "empty" ELSE split

\* What a fetch that ended with answer leaves: a failure is an empty list.
Fetched(answer, source) == IF answer = "rows" THEN source ELSE "empty"

Countries ==
    /\ step = "countries"
    /\ step' = "sectors" /\ attempt' = 0
    /\ \/ /\ ~flags.geosplit
          /\ pos' = [pos EXCEPT !.countries = FromCache(cache.countries)]
       \/ /\ flags.geosplit /\ Specialized
          /\ \E a \in CountryAnswers(pos.cls) :
               \/ pos' = [pos EXCEPT !.countries = Fetched(a, pos.cls), !.kept = (a # "raised")]
               \/ /\ a = "raised" /\ pos.cls = "ishares"
                  /\ pos' = [pos EXCEPT !.countries = "empty", !.kept = TRUE]
       \/ /\ flags.geosplit /\ pos.cls = "yfinance"
          /\ UNCHANGED pos
       \/ /\ flags.geosplit /\ pos.cls = "justetf"
          /\ \E a \in Answers : pos' = [pos EXCEPT !.countries = Fetched(a, "justetf")]
    /\ UNCHANGED <<home, named, registry, cache, flags, runs, k>>

\* The sectors from the cache or from the vendor, which may leave them to JustETF.
Sectors ==
    /\ step = "sectors"
    /\ step' = "quote" /\ attempt' = 0
    /\ \/ /\ ~flags.sectorsplit
          /\ pos' = [pos EXCEPT !.sectors = FromCache(cache.sectors)]
       \/ /\ flags.sectorsplit /\ Specialized
          /\ \E a \in SectorAnswers(pos.cls, pos.kept) :
               \/ a # "generic" /\ pos' = [pos EXCEPT !.sectors = Fetched(a, pos.cls)]
               \/ a = "generic" /\ \E g \in Answers :
                    pos' = [pos EXCEPT !.sectors = Fetched(g, "justetf")]
       \/ /\ flags.sectorsplit /\ pos.cls = "yfinance"
          /\ UNCHANGED pos
       \/ /\ flags.sectorsplit /\ pos.cls = "justetf"
          /\ \E a \in Answers : pos' = [pos EXCEPT !.sectors = Fetched(a, "justetf")]
    /\ UNCHANGED <<home, named, registry, cache, flags, runs, k>>

\* JustETF is asked, as the source of the position or in a vendor's stead.
AsksJustETF ==
    \/ step = "countries" /\ flags.geosplit /\ pos.cls = "justetf"
    \/ /\ step = "sectors" /\ flags.sectorsplit
       /\ pos.cls = "justetf" \/ (Specialized /\ "generic" \in SectorAnswers(pos.cls, pos.kept))

\* Mutant: one retry too many.
MutRetry ==
    /\ AsksJustETF
    /\ attempt < Retries
    /\ attempt' = attempt + 1
    /\ UNCHANGED <<home, named, registry, cache, flags, runs, step, k, pos>>

\* The site is busy: the same fetch once more, Retries times in all.  A vendor's
\* own failure is wrapped before the retry loop sees it and is not tried again.
Retry ==
    /\ AsksJustETF
    /\ attempt + 1 < Retries
    /\ attempt' = attempt + 1
    /\ UNCHANGED <<home, named, registry, cache, flags, runs, step, k, pos>>

-----------------------------------------------------------------------------
(* The quote, and what is written.                                         *)

\* Fetched when asked for or when the cache has none; a lookup that fails
\* leaves the cached one.
Quote ==
    /\ step = "quote"
    /\ step' = "check"
    /\ IF flags.prices \/ cache.price = None
       THEN \E q \in Quotes \union {None} :
              pos' = [pos EXCEPT !.price = IF q = None THEN cache.price ELSE q]
       ELSE pos' = [pos EXCEPT !.price = cache.price]
    /\ UNCHANGED <<home, named, registry, cache, flags, runs, k, attempt>>

HasData == ~({pos.countries, pos.sectors} \subseteq {None, "empty"})

Usable == ~Specialized \/ ~(flags.geosplit /\ flags.sectorsplit) \/ HasData

\* Mutant: the same class is tried again.
MutReject ==
    /\ step = "check"
    /\ ~Usable
    /\ step' = "countries"
    /\ UNCHANGED <<home, named, registry, cache, flags, runs, k, attempt, pos>>

\* _build_specialized: with both splits asked for, a position without rows is
\* dropped for a generic one.
Reject ==
    /\ step = "check"
    /\ ~Usable
    /\ step' = "generic"
    /\ UNCHANGED <<home, named, registry, cache, flags, runs, k, attempt, pos>>

\* JustETF or Yahoo, as position_source says.
BuildGeneric ==
    /\ step = "generic"
    /\ pos' = [NoPosition EXCEPT !.cls = flags.source]
    /\ attempt' = 0
    /\ step' = "countries"
    /\ UNCHANGED <<home, named, registry, cache, flags, runs, k>>

\* A generic position that could be built decides an issuer still unknown.
Accept ==
    /\ step = "check"
    /\ Usable
    /\ registry' = IF Specialized THEN registry ELSE Registered(registry, pos.cls, None)
    /\ step' = "save"
    /\ UNCHANGED <<home, named, cache, flags, runs, k, attempt, pos>>

\* Mutant: whatever the position holds goes to the cache.
MutSave ==
    /\ step = "save"
    /\ cache' = [price |-> pos.price, countries |-> pos.countries, sectors |-> pos.sectors]
    /\ step' = "idle" /\ k' = 1 /\ attempt' = 0
    /\ pos' = NoPosition
    /\ UNCHANGED <<home, named, registry, flags, runs>>

\* save_position_in_cache: Yahoo has no splits to save; a fetch that failed
\* saves an empty one.
Save ==
    /\ step = "save"
    /\ LET splits == pos.cls # "yfinance"
           Kept(asked, new, old) == IF asked /\ splits THEN new ELSE old
       IN  cache' = [price |-> IF pos.price # None THEN pos.price ELSE cache.price,
                     countries |-> Kept(flags.geosplit, pos.countries, cache.countries),
                     sectors |-> Kept(flags.sectorsplit, pos.sectors, cache.sectors)]
    /\ step' = "idle" /\ k' = 1 /\ attempt' = 0
    /\ pos' = NoPosition
    /\ UNCHANGED <<home, named, registry, flags, runs>>

\* The process is killed, or an exception that nobody expects ends the run: a
\* quote that is not JSON.
Kill ==
    /\ step # "idle"
    /\ step' = "idle" /\ k' = 1 /\ attempt' = 0
    /\ pos' = NoPosition
    /\ UNCHANGED <<home, named, registry, cache, flags, runs>>

Build == \/ Probe \/ RecordIssuer \/ RecordRef \/ Countries \/ Sectors \/ Quote
         \/ Reject \/ BuildGeneric \/ Accept \/ Save

Next == (\E f \in Flags : Start(f)) \/ Build \/ Retry \/ Kill

Spec == Init /\ [][Next]_vars

\* A build goes on; requests have timeouts, retries are counted.
FairSpec == Spec /\ WF_vars(Build)

-----------------------------------------------------------------------------
(* Properties.                                                             *)

Steps == {"idle", "probe", "record", "ref", "countries", "sectors", "quote", "check",
          "generic", "save"}

TypeOK ==
    /\ home \in Homes /\ named \in BOOLEAN
    /\ registry \in [known : BOOLEAN, issuer : {None} \union Issuers \union Generic,
                     ref : {None} \union NeedsRef]
    /\ cache \in [price : {None} \union Quotes, countries : Splits, sectors : Splits]
    /\ flags \in Flags
    /\ runs \in 0 .. MaxRuns
    /\ step \in Steps
    /\ k \in DOMAIN Chain
    /\ attempt \in 0 .. Retries - 1
    /\ pos \in [cls : {None} \union Issuers \union Generic, kept : BOOLEAN,
                countries : Splits, sectors : Splits, price : {None} \union Quotes]

\* The issuer on record is the ISIN's own, whatever sites failed to answer
\* while it was probed for; only a name that looks like UBS may mislead, and a
\* reference is one of the issuer's.
IssuerIsReal ==
    /\ registry.issuer \in Issuers => registry.issuer = home \/ (registry.issuer = "ubs" /\ named)
    /\ registry.ref # None => registry.ref = registry.issuer

\* "Decided" means decided: no later run, no fallback and no crash changes an
\* issuer or a reference that is on record.
DecidedStays ==
    [][/\ registry.issuer # None => registry'.issuer = registry.issuer
       /\ registry.ref # None => registry'.ref = registry.ref]_vars

\* What the cache holds of a split changes only in a run that was asked for
\* that split, and a price once cached is replaced but never lost.
OnlyWhatWasAsked ==
    [][/\ cache'.countries # cache.countries => flags.geosplit
       /\ cache'.sectors # cache.sectors => flags.sectorsplit
       /\ cache.price # None => cache'.price # None]_vars

\* A build ends: the probes, the fallback and the retries are bounded.
BuildEnds == step # "idle" ~> step = "idle"
=============================================================================
