------------------------------ MODULE ChargeSplit ------------------------------
(***************************************************************************)
(* How a charge is computed: billingChargeCost splits the tokens of a      *)
(* usage record into priced buckets (billing.go, billing_dimensions.go).   *)
(* Details a provider reports are carved out of the totals, and may        *)
(* contradict them.                                                        *)
(*                                                                         *)
(* Prices are whole units per token.  Rounding to eight decimals, price    *)
(* expressions and the effort multiplier are left out.                     *)
(***************************************************************************)
EXTENDS Naturals, FiniteSets, FiniteSetsExt, Functions

CONSTANTS
    TokenCounts  \* counts a provider may report, of the totals and of the details

ASSUME SplitAssumption == IsFiniteSet(TokenCounts) /\ TokenCounts \subseteq Nat

VARIABLES
    splitUsage,  \* the usage record: totals and details
    splitPrice,  \* the price rule's columns; 0 for an unset extra price
    splitCost    \* {} or the buckets that were priced: [name, tokens, price]

splitVars == <<splitUsage, splitPrice, splitCost>>

CanonicalBuckets == {"uncached", "cacheRead", "cacheWrite", "reasoning", "nonReasoning"}
InputDetails == {"textInput", "imageInput", "audioInput", "imageCacheRead", "audioCacheRead", "cachedText"}
WriteDetails == {"write30m", "write1h", "write12h"}
OutputDetails == {"imageOutput", "audioOutput"}
Fields == CanonicalBuckets \cup InputDetails \cup WriteDetails \cup OutputDetails

(* Records in which the fields of one side vary; the sides are priced independently. *)
Varying(fields) ==
    {[f \in Fields |-> IF f \in fields THEN v[f] ELSE 1] : v \in [fields -> TokenCounts]}
UsageRecords ==
    Varying({"uncached", "cacheRead"} \cup InputDetails)
       \cup Varying({"cacheWrite"} \cup WriteDetails) \cup Varying({"reasoning", "nonReasoning"} \cup OutputDetails)

ExtraPrices == {"write30m", "write1h", "write12h", "reasoning", "imageInput", "audioInput", "imageOutput", "audioOutput"}
PriceColumns == {"input", "output", "cacheRead", "cacheWrite"} \cup ExtraPrices
BasePrice == [input |-> 2, output |-> 5, cacheRead |-> 1, cacheWrite |-> 3]
Prices ==
    {[c \in PriceColumns |-> IF c = "cacheWrite" THEN w ELSE IF c \in ExtraPrices THEN x ELSE BasePrice[c]]
        : w \in {0, 3}, x \in {0, 7}}

SplitInit == splitUsage \in UsageRecords /\ splitPrice \in Prices /\ splitCost = {}

(* Faulty variant: a detail is believed whatever the total. *)
ClampUnchecked(value, limit) == value

Clamp(value, limit) == Min({value, limit})
Minus(a, b) == IF a >= b THEN a - b ELSE 0

PriceOr(column, fallback) == IF splitPrice[column] # 0 THEN splitPrice[column] ELSE fallback

(***************************************************************************)
(* billingCarveInputModalities: the parts of the uncached input that are   *)
(* images and sound.  Media the provider counts once, in the prompt, while *)
(* a cached prefix holds it, stays in the cache's share.                   *)
(***************************************************************************)
InputModalities(u) ==
    LET imageCached == Clamp(u["imageCacheRead"], u["cacheRead"])
        audioCached == Clamp(u["audioCacheRead"], u["cacheRead"] - imageCached)
        textCached == Clamp(u["cachedText"], u["cacheRead"] - imageCached - audioCached)
        InCache(raw, cached, others) ==
            /\ cached = 0 /\ u["cacheRead"] > 0 /\ u["textInput"] = 0
            /\ raw > u["uncached"] /\ raw <= Minus(u["cacheRead"], others)
        imageHeld == InCache(u["imageInput"], imageCached, audioCached + textCached)
        imageShare == IF imageHeld THEN u["imageInput"] ELSE imageCached
        rawImage == IF imageHeld THEN 0 ELSE Minus(u["imageInput"], imageCached)
        rawAudio == IF InCache(u["audioInput"], audioCached, imageShare + textCached) THEN 0
                    ELSE Minus(u["audioInput"], audioCached)
        budget == IF u["textInput"] > 0 /\ u["cachedText"] > 0 /\ u["textInput"] >= u["cachedText"]
                  THEN u["uncached"] - Clamp(u["textInput"] - u["cachedText"], u["uncached"])
                  ELSE u["uncached"]
        image == Clamp(rawImage, budget)
    IN [image |-> image, audio |-> Clamp(rawAudio, budget - image)]

(* billingCompleteChargeCost *)
Bucket(name, tokens, price) == [name |-> name, tokens |-> tokens, price |-> price]
ChargeBuckets(u) ==
    LET m == InputModalities(u)
        w30 == Clamp(u["write30m"], u["cacheWrite"])
        w1h == Clamp(u["write1h"], u["cacheWrite"] - w30)
        w12 == Clamp(u["write12h"], u["cacheWrite"] - w30 - w1h)
        w5 == u["cacheWrite"] - w30 - w1h - w12
        noWritePrice == splitPrice["cacheWrite"] = 0
        writePrice == IF noWritePrice THEN splitPrice["input"] ELSE splitPrice["cacheWrite"]
        image == Clamp(u["imageOutput"], u["nonReasoning"])
        audio == Clamp(u["audioOutput"], u["nonReasoning"] - image)
        text == u["nonReasoning"] - image - audio
        noReasoningPrice == splitPrice["reasoning"] = 0
    IN {Bucket("input", u["uncached"] - m.image - m.audio + (IF noWritePrice THEN w5 ELSE 0), splitPrice["input"]),
        Bucket("image_input", m.image, PriceOr("imageInput", splitPrice["input"])),
        Bucket("audio_input", m.audio, PriceOr("audioInput", splitPrice["input"])),
        Bucket("cache_read", u["cacheRead"], splitPrice["cacheRead"]),
        Bucket("cache_write", IF noWritePrice THEN 0 ELSE w5, splitPrice["cacheWrite"]),
        Bucket("cache_write_30m", w30, PriceOr("write30m", writePrice)),
        Bucket("cache_write_1h", w1h, PriceOr("write1h", writePrice)),
        Bucket("cache_write_12h", w12, PriceOr("write12h", PriceOr("write1h", PriceOr("write30m", writePrice)))),
        Bucket("output", text + (IF noReasoningPrice THEN u["reasoning"] ELSE 0), splitPrice["output"]),
        Bucket("reasoning", IF noReasoningPrice THEN 0 ELSE u["reasoning"], PriceOr("reasoning", splitPrice["output"])),
        Bucket("image_output", image, PriceOr("imageOutput", splitPrice["output"])),
        Bucket("audio_output", audio, PriceOr("audioOutput", splitPrice["output"]))}

(* billingChargeCost; buckets without tokens are left out. *)
ComputeCharge ==
    /\ splitCost = {}
    /\ splitCost' = {b \in ChargeBuckets(splitUsage) : b.tokens > 0}
    /\ UNCHANGED <<splitUsage, splitPrice>>

SplitNext == ComputeCharge

(***************************************************************************)
(* Properties.                                                             *)
(***************************************************************************)
PricedTokens(buckets) == SumFunction([b \in buckets |-> b.tokens])
PricedCost(buckets) == SumFunction([b \in buckets |-> b.tokens * b.price])
TotalTokens(u) == u["uncached"] + u["cacheRead"] + u["cacheWrite"] + u["reasoning"] + u["nonReasoning"]

(* "Optional detail buckets are carved out of their canonical parent bucket, so  *)
(* totals never change" (billing.go, billingCompleteChargeCost): every token is  *)
(* priced once, whatever details the provider reports.                           *)
EveryTokenPricedOnce ==
    splitCost # {} => PricedTokens(splitCost) = TotalTokens(splitUsage)

(* "Unset detail prices fall back to the parent price": a rule without extra      *)
(* prices charges what the totals alone would cost.                               *)
DetailsCostNothingExtra ==
    (splitCost # {} /\ \A c \in ExtraPrices : splitPrice[c] = 0) =>
        PricedCost(splitCost)
            = splitUsage["uncached"] * splitPrice["input"] + splitUsage["cacheRead"] * splitPrice["cacheRead"]
              + splitUsage["cacheWrite"] * (IF splitPrice["cacheWrite"] = 0 THEN splitPrice["input"] ELSE splitPrice["cacheWrite"])
              + (splitUsage["reasoning"] + splitUsage["nonReasoning"]) * splitPrice["output"]

(* The sum charged is exact, however the provider details the totals.            *)
ChargeIsExact == EveryTokenPricedOnce /\ DetailsCostNothingExtra
================================================================================
