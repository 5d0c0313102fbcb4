------------------------------ MODULE Alignment ------------------------------
(***************************************************************************)
(* How a clip is moved to where its sound matches recorded items:          *)
(* core/alignment_math.cpp, and the three stages of                        *)
(* alignVideoItemToReference, refineAlignment and sampleAccurateRefine     *)
(* (reashoot.mm).  Sounds are sequences of whole numbers, time counts      *)
(* their samples; a score is a pair <<dot, energy>> for dot / sqrt(energy).*)
(***************************************************************************)
EXTENDS Integers, SequencesExt, FiniteSetsExt

\* A stage compares one value for `step` samples of sound, at most `longest` samples of the
\* clip, `search` samples to each side, and wants `overlap` values to lie together.  In the
\* code, in seconds: 1/200, 120, 5, 1; 1/1000, 30, 0.2, 0.25; 1/48000, 1, 0.03, 0.25.
CONSTANTS Coarse, Fine, Sample, Near, Radius    \* Near is 25 ms, Radius that of smoothing

Total(s) == FoldLeft(LAMBDA a, b : a + b, 0, s)
TotalOver(S, f(_)) == FoldSet(LAMBDA i, sum : sum + f(i), 0, S)

(***************************************************************************)
(* The smoothing of shapeEnvelope and normalizedSampleShape: a running sum *)
(* with two ends, here as <<sum, count>> for the mean at each sample.      *)
(***************************************************************************)
SmoothStep(s, signal, radius, i) ==
  LET right == Min({Len(signal), i + radius})
      left  == Max({1, i - radius})
      sum   == s.sum + Total(SubSeq(signal, s.right + 1, right))
                     - Total(SubSeq(signal, s.left, left - 1))
  IN [sum |-> sum, left |-> left, right |-> right,
      count |-> s.count + (right - s.right) - (left - s.left),
      out |-> Append(s.out, <<sum, s.count + (right - s.right) - (left - s.left)>>)]

Smoothed(signal, radius) ==
  FoldLeft(LAMBDA s, i : SmoothStep(s, signal, radius, i),
           [sum |-> 0, left |-> 1, right |-> 0, count |-> 0, out |-> <<>>],
           [i \in DOMAIN signal |-> i]).out

\* Each sample becomes the mean of those within the radius.
SmoothsTheWindow(signal, radius) ==
  \A i \in DOMAIN signal :
    LET near == {j \in DOMAIN signal : j - i <= radius /\ i - j <= radius}
    IN Smoothed(signal, radius)[i] = <<TotalOver(near, LAMBDA j : signal[j]), Cardinality(near)>>

(***************************************************************************)
(* strongestTransientPeaks.                                                *)
(***************************************************************************)
Abs(n) == IF n < 0 THEN -n ELSE n

\* The first peak near i takes i in, and moves there if i is higher.
MergePeak(peaks, i, value, distance) ==
  LET near == {k \in DOMAIN peaks : Abs(peaks[k].index - i) <= distance}
      k    == Min(near)
  IN IF near = {} THEN Append(peaks, [index |-> i, value |-> value])
     ELSE IF value > peaks[k].value THEN [peaks EXCEPT ![k] = [index |-> i, value |-> value]]
     ELSE peaks

PeakStep(peaks, signal, distance, i) ==
  LET v == signal[i]
  IN IF v * 100 < Max(ToSet(signal)) * 35 \/ v < signal[i - 1] \/ v < signal[i + 1]
     THEN peaks ELSE MergePeak(peaks, i, v, distance)

StrongestTransientPeaks(signal, distance, most) ==
  LET all == FoldLeft(LAMBDA p, i : PeakStep(p, signal, distance, i), <<>>,
                      [i \in 1..(Len(signal) - 2) |-> i + 1])
      sorted == SortSeq(all, LAMBDA a, b : a.value > b.value)
  IN IF Len(signal) < 3 THEN <<>>
     ELSE IF Max(ToSet(signal)) <= 0 THEN <<>>
     ELSE SubSeq(sorted, 1, Min({most, Len(sorted)}))

\* The peaks are apart from each other, the highest first, and the highest of all that
\* are not at the border is among them.
PeaksAreApart(signal, distance, most) ==
  LET p == StrongestTransientPeaks(signal, distance, most)
      inner == {signal[i] : i \in 2..(Len(signal) - 1)}
  IN /\ \A j, k \in DOMAIN p : j < k =>
          p[j].value >= p[k].value /\ Abs(p[j].index - p[k].index) > distance
     /\ (p # <<>> /\ Max(inner) = Max(ToSet(signal))) => p[1].value = Max(inner)

(***************************************************************************)
(* normalizedCorrelationAtLag.                                             *)
(***************************************************************************)
NoScore == <<0, 0>>

Correlation(video, reference, lag, overlap) ==
  LET first == Max({0, -lag})      \* in the video
      start == Max({0, lag})       \* in the reference
      count == Min({Len(video) - first, Len(reference) - start})
      v(i) == video[first + i]
      r(i) == reference[start + i]
      energy == TotalOver(1..count, LAMBDA i : v(i) * v(i)) * TotalOver(1..count, LAMBDA i : r(i) * r(i))
  IN IF count < overlap \/ energy = 0 THEN NoScore
     ELSE <<TotalOver(1..count, LAMBDA i : v(i) * r(i)), energy>>

\* Scores are compared by their squares, with the sign of the dot product.
Square(score) == score[1] * score[1]

\* a / b > c / d for natural numbers, b and d positive.
RECURSIVE Greater(_, _, _, _)
Greater(a, b, c, d) ==
  IF a \div b # c \div d THEN a \div b > c \div d
  ELSE IF a % b = 0 THEN FALSE
  ELSE IF c % d = 0 THEN TRUE ELSE Greater(d, c % d, b, a % b)

Higher(a, b) ==
  CASE a = NoScore -> FALSE
    [] b = NoScore -> TRUE
    [] a[1] > 0 /\ b[1] > 0   -> Greater(Square(a), a[2], Square(b), b[2])
    [] a[1] <= 0 /\ b[1] <= 0 -> Greater(Square(b), b[2], Square(a), a[2])
    [] OTHER -> a[1] > 0

\* A score in thousandths: the first six digits of its square, and their root.
RECURSIVE Decimals(_, _, _), Root(_, _, _)
Decimals(a, b, n) == IF n = 0 THEN a \div b ELSE 10^n * (a \div b) + Decimals(10 * (a % b), b, n - 1)
Root(n, low, high) ==
  LET half == (low + high + 1) \div 2
  IN IF low = high THEN low
     ELSE IF half * half <= n THEN Root(n, half, high) ELSE Root(n, low, half - 1)
Thousandths(score) ==
  LET root == Root(Decimals(Square(score), score[2], 6), 0, 1000)
  IN IF score[1] < 0 THEN -root ELSE root

(***************************************************************************)
(* What a stage compares: the highest of each step of sound, smoothed, and *)
(* taken from the mean; nothing where the sound is even.                   *)
(***************************************************************************)
Highest(sound, step) ==
  [i \in 1..Max({1, Len(sound) \div step}) |->
     Max(ToSet(SubSeq(sound, (i - 1) * step + 1, Min({i * step, Len(sound)}))))]
\* Means as whole numbers, in one unit that every count divides.
Unit == FoldSet(LAMBDA i, p : i * p, 1, 1..(2 * Radius + 1))
InUnits(means) == [i \in DOMAIN means |-> means[i][1] * (Unit \div means[i][2])]
FromTheMean(s) == [i \in DOMAIN s |-> Len(s) * s[i] - Total(s)]
Uneven(s) == IF ToSet(s) = {0} THEN <<>> ELSE s
Shape(sound, step) ==
  IF sound = <<>> THEN <<>>
  ELSE Uneven(FromTheMean(InUnits(Smoothed(Highest(sound, step), Radius))))

\* The nearest whole number to a / b, away from zero if there are two.
Nearest(a, b) == IF a >= 0 THEN (2 * a + b) \div (2 * b) ELSE -((b - 2 * a) \div (2 * b))

\* The clip's part at `place` and the reference's at `from`, from which the window is
\* read, `length` samples of the one and `duration` of the other.
Window(stage, video, reference, from, place, offset, length, duration) ==
  [video    |-> Shape(SubSeq(video, 1, length), stage.step),
   window   |-> Shape(SubSeq(reference, offset + 1, offset + duration), stage.step),
   from     |-> from + offset,
   expected |-> Nearest(place - from - offset, stage.step),
   reach    |-> stage.search \div stage.step,
   enough   |-> 2 * duration > length]
Compared(stage, video, reference, from, place) ==
  LET length == Min({Len(video), stage.longest})
      offset == Max({0, place - from - stage.search})
  IN Window(stage, video, reference, from, place, offset, length,
            Min({Len(reference) - offset, length + 2 * stage.search}))

\* Every lag at which they meet, or those at which the window holds the whole clip.
Lags(c) == Max({1 - Len(c.video), c.expected - c.reach})
           .. Min({Len(c.window) - 1, c.expected + c.reach})
InnerLags_AnyOverlap(c) == Lags(c)
InnerLags(c) == Max({0, c.expected - c.reach})
                .. Min({Len(c.window) - Len(c.video), c.expected + c.reach})

\* The first of the lags, a range of whole numbers, whose score is highest.
InOrder(lags) == [i \in 1..Cardinality(lags) |-> Min(lags) + i - 1]
Best(c, lags, overlap) ==
  LET score(l) == Correlation(c.video, c.window, l, overlap)
      none     == [lag |-> c.expected, score |-> NoScore]
      better(b, l) == IF Higher(score(l), b.score) THEN [lag |-> l, score |-> score(l)] ELSE b
  IN IF <<>> \in {c.video, c.window} THEN none
     ELSE FoldLeft(better, none, InOrder(lags))

(***************************************************************************)
(* The stages: each gives a place and a score, NoScore if it fails.        *)
(***************************************************************************)
Placed(c, lag, best) == [place |-> c.from + lag, score |-> best.score]

CoarseLag(c, best) == Placed(c, Coarse.step * best.lag, best)
CoarseFound(c) == CoarseLag(c, Best(c, Lags(c), Coarse.overlap))
CoarsePlace(video, reference, from, at) ==
  IF at - from < -Coarse.search \/ at - from > Len(reference) + Coarse.search
  THEN [place |-> at, score |-> NoScore]
  ELSE CoarseFound(Compared(Coarse, video, reference, from, at))

\* The mean of the lags near the best, by how little their scores fall short of its own.
Weight(score, best) ==
  IF score = NoScore THEN -1 ELSE Thousandths(score) - Thousandths(best.score) + 20
WeightedMean(weight) ==
  LET near == {l \in DOMAIN weight : weight[l] >= 0}
  IN Nearest(Fine.step * TotalOver(near, LAMBDA l : l * weight[l]),
             TotalOver(near, LAMBDA l : weight[l]))
Weighted(c, best) ==
  WeightedMean([l \in {k \in Lags(c) : Abs(k - best.lag) <= Near \div Fine.step} |->
                  Weight(Correlation(c.video, c.window, l, Fine.overlap), best)])

FineLag(c, best, at) ==
  IF best.score = NoScore THEN [place |-> at, score |-> NoScore]
                          ELSE Placed(c, Weighted(c, best), best)
FineFound(c, at) == FineLag(c, Best(c, Lags(c), Fine.overlap), at)
FinePlace(video, reference, from, at) ==
  FineFound(Compared(Fine, video, reference, from, at), at)

\* Whatever its score is worth.
SampleLag(c, best) == Placed(c, best.lag, best)
SampleFound(c, at) ==
  IF c.enough THEN SampleLag(c, Best(c, InnerLags(c), Sample.overlap))
              ELSE [place |-> at, score |-> NoScore]
SamplePlace(video, reference, from, at) ==
  SampleFound(Compared(Sample, video, reference, from, at), at)

\* A stage that fails leaves the one before it.
Or(later, earlier) == IF later.score = NoScore THEN earlier ELSE later
Sampled(video, reference, from, fine) ==
  Or(SamplePlace(video, reference, from, fine.place), fine)
Refine(video, reference, from, fine, coarse) ==
  IF fine.score = NoScore THEN coarse ELSE Sampled(video, reference, from, fine)
Refined(video, reference, from, coarse) ==
  Refine(video, reference, from, FinePlace(video, reference, from, coarse.place), coarse)

\* A reference is tried further if its coarse score is higher than the best so far, which
\* may be one of a later stage.
Better(video, best, r, coarse) ==
  IF Higher(coarse.score, best.score) THEN Refined(video, r.sound, r.from, coarse) ELSE best
Aligned(video, at, references) ==
  LET try(best, r) == Better(video, best, r, CoarsePlace(video, r.sound, r.from, at))
  IN FoldLeft(try, [place |-> at, score |-> NoScore], references)

\* The clip is moved only for a score of 0.15.
Enough(a) == IF a.score = NoScore THEN FALSE ELSE Thousandths(a.score) >= 150
MovedIfSure(a, at) == IF Enough(a) THEN a.place ELSE at
PlaceOf(video, at, references) == MovedIfSure(Aligned(video, at, references), at)

(***************************************************************************)
(* Checks.                                                                 *)
(***************************************************************************)
\* A clip that begins at sample k of the sound, before it if k is negative.
Clip(sound, k, n) == [i \in 1..n |-> IF k + i \in DOMAIN sound THEN sound[k + i] ELSE 0]

\* A lag at which the clip is the very sound it lies on is found, or an earlier one that is
\* as good, wherever the lag is among those tried.
CopyIsFound(sound, n, k, away, reach, overlap) ==
  LET c == [video |-> Clip(sound, k, n), window |-> sound, expected |-> k + away, reach |-> reach]
      found(lags) == LET best == Best(c, lags, overlap)
                     IN best.lag <= k /\ best.score[1] > 0 /\ Square(best.score) = best.score[2]
  IN Correlation(c.video, sound, k, overlap) # NoScore =>
       \A lags \in {Lags(c), InnerLags(c)} : k \in lags => found(lags)

\* No stage takes the clip further than it searches, half a step more for the rounding, and
\* the last puts what it compared within the reference; so however many references compete,
\* the clip is not moved further than the three stages together search.
Within(a, b, stage) ==
  a.score # NoScore => 2 * Abs(a.place - b) <= 2 * stage.search + stage.step
SampleStays(video, r, sample, fine) ==
  /\ Within(sample, fine.place, Sample)
  /\ sample.score # NoScore =>
       /\ sample.place >= r.from
       /\ sample.place + Min({Len(video), Sample.longest}) <= r.from + Len(r.sound)
FineStays(video, r, fine, coarse) ==
  /\ Within(fine, coarse.place, Fine)
  /\ SampleStays(video, r, SamplePlace(video, r.sound, r.from, fine.place), fine)
CoarseStays(video, r, coarse, at) ==
  /\ Within(coarse, at, Coarse)
  /\ FineStays(video, r, FinePlace(video, r.sound, r.from, coarse.place), coarse)
StaysInReach(video, at, references) ==
  /\ \A i \in DOMAIN references :
       CoarseStays(video, references[i],
                   CoarsePlace(video, references[i].sound, references[i].from, at), at)
  /\ 2 * Abs(PlaceOf(video, at, references) - at) <=
       TotalOver({Coarse, Fine, Sample}, LAMBDA s : 2 * s.search + s.step)
=============================================================================
