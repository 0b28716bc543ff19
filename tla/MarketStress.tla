------------------------------ MODULE MarketStress ------------------------------
(***************************************************************************)
(* From closing prices to a regime and what it does to signals and         *)
(* exposure, for one evaluation: GJRGarchEngine.fit for every ticker,      *)
(* VolatilityAggregator.aggregate, the threshold strategies,               *)
(* RegimeClassifier, StateCoupledControl and ExposureController.           *)
(*                                                                         *)
(* Closes are given by their logarithms, which are integers, so that       *)
(* returns are exact differences.  A volatility ratio is a multiple of     *)
(* 1/Unit, a stress score of 1/(4*Unit) and a boundary of 1/(16*Unit):     *)
(* np.quantile interpolates between quarters of a position.  The           *)
(* optimizer of the arch library is external: any parameters, any ratio.   *)
(***************************************************************************)
EXTENDS Integers, Sequences, FiniteSets, FiniteSetsExt, SequencesExt, TLC

CONSTANTS
    Tickers,          \* the holdings
    Series,           \* the bars a ticker can have: functions from days to log closes
    AsOf,             \* the day evaluated
    MinObservations,  \* GJRGarchEngine.min_observations
    RealizedWindow,   \* GJRGarchEngine.realized_window
    Ratios,           \* conditional over realized volatility, as the optimizer finds it
    Unit,             \* the ratio 1.0
    Parameters,       \* what the optimizer can return, in tenths
    MinAssets,        \* CoverageRequirements.minimum_asset_count
    MinCoverage,      \* CoverageRequirements.minimum_coverage_ratio, in percent
    Histories,        \* stress scores of earlier days, as persisted or bootstrapped
    FeedbackThresholds, \* thresholds of earlier feedback, in the unit of scores
    WindowLength,     \* RollingQuantileThreshold.window_length
    MinHistory,       \* RollingQuantileThreshold.minimum_history
    Signals,          \* composite signals, in percent
    Risks             \* composite risks, in percent

ASSUME TickersAssumption == IsFiniteSet(Tickers)
ASSUME WindowAssumption == RealizedWindow >= 2 /\ MinObservations >= RealizedWindow
ASSUME RatiosAssumption ==
    /\ Ratios \subseteq Nat \ {0} /\ IsFiniteSet(Ratios)
    /\ Unit \in Nat \ {0} /\ MinAssets \in Nat \ {0} /\ MinCoverage \in Nat
ASSUME HistoryAssumption ==
    /\ MinHistory \in Nat /\ WindowLength \in Nat
    /\ 1 <= MinHistory /\ MinHistory <= WindowLength
    /\ Histories \subseteq Seq(Nat) /\ IsFiniteSet(Histories)
    /\ FeedbackThresholds \subseteq Nat
ASSUME ControlAssumption == Signals \subseteq Int /\ Risks \subseteq Nat

VARIABLES
    market,   \* the bars of each ticker
    fits,     \* the outcome of fit() for each ticker
    snapshot, \* MarketStressSnapshot
    strategy, \* Rolling, or the threshold of the fixed strategy
    window,   \* the scores the boundaries are taken from
    regime,   \* MarketVolatilityState.regime
    pc

vars == <<market, fits, snapshot, strategy, window, regime, pc>>

Regimes == <<"LOW_VOL", "NORMAL", "ELEVATED", "HIGH_STRESS">>
Failed == [status |-> "FAILED", ratio |-> 0]
Success(r) == [status |-> "SUCCESS", ratio |-> r]
\* _fallback_estimate: rolling volatility, and a ratio of 1.0.
Fallback == [status |-> "FALLBACK", ratio |-> Unit]
NoSnapshot == [total |-> 0, eligible |-> 0, fitted |-> 0, fallback |-> 0, failed |-> 0,
               score |-> 0]
NoRegime == "NONE"
Rolling == 0 \* RollingQuantileThreshold; a threshold stands for the fixed strategy
Scores == 4..4 * Max(Ratios \cup {Unit}) \* 4 * Unit is a median ratio of 1.0

TypeOK ==
    /\ market \in [Tickers -> Series]
    /\ fits \in [Tickers -> {Success(r) : r \in Ratios} \cup {Fallback, Failed}]
    /\ \A c \in {"total", "eligible", "fitted", "fallback", "failed"} :
           snapshot[c] \in 0..Cardinality(Tickers)
    /\ snapshot.score \in Scores \cup {0}
    /\ strategy \in {Rolling} \cup FeedbackThresholds
    /\ Len(window) <= Max({WindowLength} \cup {Len(h) + 1 : h \in Histories})
    /\ regime \in Range(Regimes) \cup {NoRegime}
    /\ pc \in {"fit", "aggregate", "classify", "classified", "uncovered", "short", "invalid"}

Init ==
    /\ market \in [Tickers -> Series]
    /\ fits = [t \in Tickers |-> Failed]
    /\ snapshot = NoSnapshot
    /\ strategy = Rolling
    /\ window = <<>>
    /\ regime = NoRegime
    /\ pc = "fit"

--------------------------------------------------------------------------------
\* normalize_market_data: one bar a day, in order.
Days(bars) == SetToSortSeq(DOMAIN bars, <)

\* _slice_as_of: the days known as of the evaluation.  The code slices the
\* returns; they are the returns of the slice.
DaysKnown(bars) == SelectSeq(Days(bars), LAMBDA d : d <= AsOf)

\* calculate_log_returns without its first, undefined value.
ReturnsOf(bars) ==
    LET days == DaysKnown(bars) IN
    [i \in 1..(Len(days) - 1) |-> bars[days[i + 1]] - bars[days[i]]]

Trailing(s, n) == SubSeq(s, Max({1, Len(s) - n + 1}), Len(s))
Varies(s) == \E i, j \in DOMAIN s : s[i] # s[j]

\* _realized_volatility: the trailing window must not be flat.
Realized(returns) == Varies(Trailing(returns, RealizedWindow))

\* _prepare_returns: enough observations that are not constant.
Prepared(returns) == Len(returns) >= MinObservations /\ Varies(returns)

Usable(t) == Prepared(ReturnsOf(market[t])) /\ Realized(ReturnsOf(market[t]))

\* GARCHParameters: stationary, and a fall never lowers the variance.
ValidParameters(p) ==
    /\ p.alpha + p.gamma >= 0
    /\ 2 * (p.alpha + p.beta) + p.gamma < 20

\* _build_estimate: what the optimizer returned, if its parameters are valid.
Fit(p, r) == IF ValidParameters(p) THEN Success(r) ELSE Fallback

\* fit(): too few or flat returns raise; non-convergence and exceptions of the
\* library end in the fallback.
Fits(t) ==
    IF Usable(t) THEN {Fit(p, r) : p \in Parameters, r \in Ratios} \cup {Fallback} ELSE {Failed}

\* VolatilityService.evaluate: each ticker on its own; a VolatilityEngineError
\* only drops its ticker.
FitAll ==
    /\ pc = "fit"
    /\ fits' \in {f \in [Tickers -> UNION {Fits(t) : t \in Tickers}] :
                      \A t \in Tickers : f[t] \in Fits(t)}
    /\ pc' = "aggregate"
    /\ UNCHANGED <<market, snapshot, strategy, window, regime>>

--------------------------------------------------------------------------------
\* 4 * np.quantile(s, k / 4) of a sorted sequence, by linear interpolation.
Quartile(s, k) ==
    LET p == k * (Len(s) - 1)
        i == p \div 4 + 1
    IN  4 * s[i] + (IF p % 4 = 0 THEN 0 ELSE (p % 4) * (s[i + 1] - s[i]))

\* np.sort: at place k the least value that k observations do not exceed.
UpTo(s, x) == {i \in DOMAIN s : s[i] <= x}
Sorted(s) == [k \in DOMAIN s |-> Min({x \in Range(s) : Cardinality(UpTo(s, x)) >= k})]
WithStatus(st) == {t \in Tickers : fits[t].status = st}

\* Mutated form of StressScore: the third quartile for the median.
StressScoreHigh(E) == Quartile(Sorted([i \in 1..Cardinality(E) |-> fits[SetToSeq(E)[i]].ratio]), 3)

\* The median volatility ratio of the eligible estimates.
StressScore(E) == Quartile(Sorted([i \in 1..Cardinality(E) |-> fits[SetToSeq(E)[i]].ratio]), 2)

\* CoverageRequirements, checked by the aggregator and again by RegimeService.
Covered(E) ==
    /\ Cardinality(E) >= MinAssets
    /\ 100 * Cardinality(E) >= MinCoverage * Cardinality(Tickers)

\* aggregate(): every estimate carries as_of as its timestamp, so that the
\* successful ones are the eligible ones.
Aggregate ==
    /\ pc = "aggregate"
    /\ Covered(WithStatus("SUCCESS"))
    /\ LET E == WithStatus("SUCCESS")
           B == WithStatus("FALLBACK")
       IN  snapshot' = [total |-> Cardinality(Tickers), eligible |-> Cardinality(E),
                        fitted |-> Cardinality(E), fallback |-> Cardinality(B),
                        failed |-> Cardinality(Tickers) - Cardinality(E) - Cardinality(B),
                        score |-> StressScore(E)]
    /\ pc' = "classify"
    /\ UNCHANGED <<market, fits, strategy, window, regime>>

\* InsufficientCoverageError.
RefuseCoverage ==
    /\ pc = "aggregate"
    /\ ~Covered(WithStatus("SUCCESS"))
    /\ pc' = "uncovered"
    /\ UNCHANGED <<market, fits, snapshot, strategy, window, regime>>

--------------------------------------------------------------------------------
\* RollingQuantileThreshold.calculate.
RollingBoundaries(w) ==
    [low |-> Quartile(Sorted(w), 1), center |-> Quartile(Sorted(w), 2),
     high |-> Quartile(Sorted(w), 3)]

\* FixedThresholdStrategy.calculate: the quantiles are capped at the threshold.
FixedBoundaries(w, threshold) ==
    LET low == Min({Quartile(Sorted(w), 1), 4 * threshold})
        center == Min({Quartile(Sorted(w), 2), 4 * threshold})
    IN  [low |-> low, center |-> Max({low, center}), high |-> 4 * threshold]

Boundaries(s, w) == IF s = Rolling THEN RollingBoundaries(w) ELSE FixedBoundaries(w, s)

\* _historical_window over scores in the order of their days.
Window(s, available) == IF s = Rolling THEN Trailing(available, WindowLength) ELSE available
LongEnough(s, available) == s # Rolling \/ Len(available) >= MinHistory

\* The validators of ThresholdResult and MarketVolatilityState.
Ordered(b) == b.low <= b.center /\ b.center <= b.high
Accepted(r, score, b) ==
    /\ snapshot.fitted + snapshot.fallback + snapshot.failed = snapshot.total
    /\ snapshot.eligible <= snapshot.total
    /\ r = "HIGH_STRESS" <=> 4 * score >= b.high

\* Mutated form of RegimeOf: strictly above the threshold.
RegimeAbove(score, b) ==
    IF 4 * score > b.high THEN "HIGH_STRESS"
    ELSE IF 4 * score > b.center THEN "ELEVATED"
    ELSE IF 4 * score < b.low THEN "LOW_VOL"
    ELSE "NORMAL"

\* RegimeClassifier.classify.
RegimeOf(score, b) ==
    IF 4 * score >= b.high THEN "HIGH_STRESS"
    ELSE IF 4 * score > b.center THEN "ELEVATED"
    ELSE IF 4 * score < b.low THEN "LOW_VOL"
    ELSE "NORMAL"

\* RegimeService.evaluate over the scores of earlier days and today's; earlier
\* feedback brings the fixed strategy, which asks for one observation only.
\* A state that a validator refuses raises.
Classify ==
    /\ pc = "classify"
    /\ \E h \in Histories, s \in {Rolling} \cup FeedbackThresholds :
        LET available == Append(h, snapshot.score)
            b == Boundaries(s, Window(s, available))
            r == RegimeOf(snapshot.score, b)
            valid == Ordered(b) /\ Accepted(r, snapshot.score, b)
        IN  /\ strategy' = s
            /\ window' = IF LongEnough(s, available) THEN Window(s, available) ELSE window
            /\ regime' = IF LongEnough(s, available) /\ valid THEN r ELSE regime
            /\ pc' = CASE ~LongEnough(s, available) -> "short"
                       [] LongEnough(s, available) /\ valid -> "classified"
                       [] OTHER -> "invalid"
    /\ UNCHANGED <<market, fits, snapshot>>

Next == FitAll \/ Aggregate \/ RefuseCoverage \/ Classify

Spec == Init /\ [][Next]_vars

--------------------------------------------------------------------------------
\* SignalRegulator.regulate, in percent.
Attenuation(r, ratio) ==
    LET excess == Max({0, ratio - Unit}) IN
    CASE r = "ELEVATED" -> Max({70, (100 * Unit) \div (Unit + excess)})
      [] r = "HIGH_STRESS" -> Max({20, (100 * Unit) \div (Unit + 2 * excess)})
      [] OTHER -> 100

RegimeMultiplier(r) == CASE r = "ELEVATED" -> 80 [] r = "HIGH_STRESS" -> 55 [] OTHER -> 100

\* CompositeRiskService and ReliabilityService: the level of a score in percent.
RiskLevel(risk) ==
    IF risk >= 75 THEN "CRITICAL_RISK" ELSE IF risk >= 50 THEN "ELEVATED_RISK"
    ELSE IF risk >= 25 THEN "MODERATE_RISK" ELSE "LOW_RISK"
ReliabilityLevel(score) == IF score >= 75 THEN "HIGH" ELSE IF score >= 40 THEN "MODERATE" ELSE "LOW"

\* Their multipliers, in tenths.
RiskMultiplier == [LOW_RISK |-> 10, MODERATE_RISK |-> 8, ELEVATED_RISK |-> 5, CRITICAL_RISK |-> 1]
ReliabilityMultiplier == [HIGH |-> 10, MODERATE |-> 7, LOW |-> 3]

\* StateCoupledControl.apply: the control output, in units of 10^-8.
ControlOutput(signal, r, ratio, risk, reliability) ==
    signal * Attenuation(r, ratio) * RegimeMultiplier(r) * RiskMultiplier[RiskLevel(risk)]
        * ReliabilityMultiplier[ReliabilityLevel(reliability)]

\* Its decision.
DecisionState(output, r) ==
    LET magnitude == IF output < 0 THEN -output ELSE output IN
    CASE magnitude < 10000000 -> "HOLD"
      [] magnitude >= 10000000 /\ r = "HIGH_STRESS" -> "REVIEW"
      [] magnitude >= 35000000 /\ r # "HIGH_STRESS" -> "ADAPT"
      [] OTHER -> "REVIEW"

\* ExposureConfig.regime_factors, in percent.
RegimeFactor(r) == CASE r = "ELEVATED" -> 75 [] r = "HIGH_STRESS" -> 45 [] OTHER -> 100

\* Mutated form of Exposure: the risk adds to the exposure.
ExposureWithRisk(r, risk) ==
    Min({1000000, Max({200000, RegimeFactor(r) * (10000 + 75 * risk)})})

\* ExposureController.calculate with the default ExposureConfig, in units of 10^-6.
Exposure(r, risk) ==
    Min({1000000, Max({200000, RegimeFactor(r) * Max({0, 10000 - 75 * risk})})})

Abs(n) == IF n < 0 THEN -n ELSE n

--------------------------------------------------------------------------------
\* A minority of wrong fits does not decide the stress score: whatever fewer
\* than half of the eligible ratios are, the score lies within the others;
\* and a fallback or a failed ticker never contributes.  "Build a robust
\* market-stress snapshot using cross-sectional medians."
MinorityCannotMoveStress ==
    pc \in {"classify", "classified", "short", "invalid"} =>
        LET E == {t \in Tickers : Usable(t) /\ fits[t].status = "SUCCESS"} IN
        /\ snapshot.fitted = Cardinality(E)
        /\ \A B \in SUBSET E : 2 * Cardinality(B) < Cardinality(E) =>
              /\ 4 * Min({fits[t].ratio : t \in E \ B}) <= snapshot.score
              /\ snapshot.score <= 4 * Max({fits[t].ratio : t \in E \ B})

\* What interpolated quantiles come to: the rolling strategy calls today
\* HIGH_STRESS iff at most a quarter of the other days of the window were
\* worse, and not otherwise ELEVATED iff more than half of them were better,
\* LOW_VOL iff more than three quarters were worse.  A history without any
\* change is therefore HIGH_STRESS.  What either strategy and the classifier
\* make never fails a validator.
RegimeMatchesRank ==
    /\ pc # "invalid"
    /\ (pc = "classified" /\ strategy = Rolling) =>
        LET others == Len(window) - 1
            worse == Cardinality({i \in DOMAIN window : window[i] > snapshot.score})
            better == Cardinality({i \in DOMAIN window : window[i] < snapshot.score})
        IN  /\ regime = "HIGH_STRESS" <=> 4 * worse <= others
            /\ regime = "ELEVATED" <=> (4 * worse > others /\ 2 * better > others)
            /\ regime = "LOW_VOL" <=> 4 * worse > 3 * others

\* On a higher score, with the boundaries that were used, neither the exposure
\* nor the control output of any signal would be larger, and no signal would be
\* turned around: from HIGH_STRESS to LOW_VOL every table of the chain agrees
\* with the order of the classifier's branches.
StressNeverRaisesExposure ==
    pc = "classified" =>
        \A then \in {RegimeOf(s, Boundaries(strategy, window)) : s \in {x \in Scores : x > snapshot.score}},
           risk \in Risks :
            /\ \A more \in {k \in Risks : k >= risk} : Exposure(then, more) <= Exposure(regime, risk)
            /\ \A signal \in Signals, ratio \in {fits[t].ratio : t \in {u \in Tickers : fits[u].status # "FAILED"}}, w \in {20, 50, 90} :
                LET now == ControlOutput(signal, regime, ratio, risk, w)
                    worse == ControlOutput(signal, then, ratio, risk, w)
                IN  /\ Abs(worse) <= Abs(now)
                    /\ (worse > 0 => signal > 0) /\ (worse < 0 => signal < 0)
                    /\ DecisionState(now, regime) = "HOLD" => DecisionState(worse, then) = "HOLD"

================================================================================
