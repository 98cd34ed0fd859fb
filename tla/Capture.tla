-------------------------------- MODULE Capture --------------------------------
(* What was captured, and what is made of it: the channels the board samples   *)
(* (sched/board.ts, instruments/recorder.ts), the pitch of a buzzer and the    *)
(* screen of an oscilloscope that the worker reads off them (sim/worker.ts),   *)
(* and the plot of the scope panel (panels/Scope.tsx).  The ring of a channel  *)
(* is SerialLine's; here it is its last samples.                               *)
EXTENDS Integers, Sequences, FiniteSetsExt, SequencesExt

CONSTANTS
    Depth,          \* samples a channel retains
    SolveGap,       \* the longest the circuit goes unsolved
    Points,         \* points a window is thinned to,
    ScreenPoints,   \* and on the face of an oscilloscope
    SoundSpan,      \* how far back the pitch is measured,
    ScreenSpan,     \* the screen reaches,
    PanelSpan,      \* and the panel
    Halves,         \* half periods a buzzer's pin may toggle at; 0 is not driven
    ShortestPeriod, \* of the highest pitch there is,
    LongestPeriod,  \* and of the lowest
    Declared,       \* the period of a buzzer that has a pitch of its own
    EndOfCapture,   \* bound: when the sketch stops
    MaxCaptures     \* bound: circuits captured

ASSUME CaptureAssumption ==
    /\ {Depth, SolveGap, Points, ScreenPoints, SoundSpan, ScreenSpan, PanelSpan} \subseteq Nat \ {0}
    /\ Halves \subseteq Nat /\ {ShortestPeriod, LongestPeriod, Declared} \subseteq Nat \ {0}
    /\ {EndOfCapture, MaxCaptures} \subseteq Nat

VARIABLES
    moment,     \* of the last solve
    half,       \* how the buzzer's pin is toggled,
    since,      \* and since when
    clipped,    \* a wire runs to the probe
    channels,   \* of each channel, its last samples, oldest first
    truth,      \* history: of every moment, the line and the drive of the buzzer
    captures    \* circuits captured so far

captureVars == <<moment, half, since, clipped, channels, truth, captures>>

Channels == {"D1", "probe", "sound"}
VoltsOf(high) == IF high THEN 2 ELSE 0

(* sample: a digital channel keeps what differs from its last.                 *)
Sample(c, now, value) ==
    LET seen == channels[c]
        kept == Append(seen, <<now, value>>)
    IN  IF c = "D1" /\ seen # <<>> /\ Last(seen)[2] = value THEN seen
        ELSE IF Len(kept) > Depth THEN Tail(kept) ELSE kept

(* window: what is between, thinned evenly, and the last of it always.         *)
(* Mutant: thinned, and that is all.                                           *)
WindowThinned(c, from, to, points) ==
    LET inside == SelectSeq(channels[c], LAMBDA s : from <= s[1] /\ s[1] <= to)
        step   == Max({1, (Len(inside) + points - 1) \div points})
    IN  [k \in 1 .. (Len(inside) + step - 1) \div step |-> inside[(k - 1) * step + 1]]

WindowOf(c, from, to, points) ==
    LET inside == SelectSeq(channels[c], LAMBDA s : from <= s[1] /\ s[1] <= to)
        step   == Max({1, (Len(inside) + points - 1) \div points})
        evenly == [k \in 1 .. (Len(inside) + step - 1) \div step |-> inside[(k - 1) * step + 1]]
    IN  IF inside = <<>> \/ Last(evenly) = Last(inside) THEN evenly ELSE Append(evenly, Last(inside))

Span ==
    LET held == {c \in Channels : channels[c] # <<>>}
    IN  IF held = {} THEN <<0, 0>>
        ELSE <<Min({Head(channels[c])[1] : c \in held}), Max({Last(channels[c])[1] : c \in held})>>
-------------------------------------------------------------------------------
(* soundingParts: the rises through half the peak, and the time between the    *)
(* first of them and the last.  A pitch is <<cycles, ticks>>; no pitch is <<>>. *)
Within(hz) ==
    IF hz[1] * LongestPeriod < hz[2] THEN <<1, LongestPeriod>> ELSE IF hz[1] * ShortestPeriod > hz[2] THEN <<1, ShortestPeriod>> ELSE hz

Pitch ==
    LET w     == WindowOf("sound", Max({0, moment - SoundSpan}), moment, Points)
        peak  == Max({w[i][2] : i \in DOMAIN w})
        rises == {w[i][1] : i \in {i \in DOMAIN w : i > 1 /\ 2 * w[i - 1][2] < peak /\ 2 * w[i][2] >= peak}}
    IN  IF Len(w) < 2 \/ peak < 1 THEN <<>>
        ELSE Within(IF Cardinality(rises) >= 2 THEN <<Cardinality(rises) - 1, Max(rises) - Min(rises)>>
                    ELSE <<1, Declared>>)

(* scopeFrames: a probe on nothing draws nothing.                              *)
ScopeFrame ==
    IF clipped THEN WindowOf("probe", Max({0, moment - ScreenSpan}), moment, ScreenPoints) ELSE <<>>

(* The panel: as far back as it reaches and anything is held; the traces on    *)
(* one axis, each held from sample to sample.                                  *)
PanelTraces ==
    [c \in {"D1", "probe"} |-> WindowOf(c, Max({Span[1], Span[2] - PanelSpan}), Span[2], Points)]
Axis(traces) == UNION {{traces[c][i][1] : i \in DOMAIN traces[c]} : c \in DOMAIN traces}
Plotted(trace, at) ==
    LET before == {i \in DOMAIN trace : trace[i][1] <= at}
    IN  IF before = {} THEN <<>> ELSE <<trace[Max(before)][2]>>
-------------------------------------------------------------------------------
TonePin(h, from, at) == h > 0 /\ ((at - from) \div h) % 2 = 0

CaptureInit ==
    /\ moment = 0 /\ since = 0
    /\ half \in Halves
    /\ clipped \in BOOLEAN
    /\ truth = <<>>
    /\ channels = [c \in Channels |-> <<>>]
    /\ captures = 1

(* The next solve: the first settles the circuit; then the buzzer's pin        *)
(* toggles, or the longest has gone by.  The line may have changed with it, or *)
(* the sketch may play another note.  Every channel is sampled.                *)
NextSolve ==
    LET toggle == IF half = 0 THEN moment + SolveGap ELSE since + half * ((moment - since) \div half + 1)
    IN  IF truth = <<>> THEN 0 ELSE Min({toggle, moment + SolveGap})

SampleAll(line, note) ==
    LET now   == NextSolve
        from  == IF note = half THEN since ELSE now
        drive == TonePin(note, from, now)
        held  == [i \in 1 .. now - moment - 1 |-> Last(truth)]
    IN  /\ now <= EndOfCapture
        /\ note # half => since = 0 /\ moment > 0
        /\ moment' = now /\ half' = note /\ since' = from
        /\ truth' = truth \o held \o <<[line |-> line, drive |-> drive]>>
        /\ channels' = [c \in Channels |->
                Sample(c, now, IF c = "sound" THEN VoltsOf(drive) ELSE IF c = "probe" THEN VoltsOf(line) ELSE line)]
        /\ UNCHANGED <<clipped, captures>>

(* Another circuit is another board, with a recorder of its own.               *)
RebuildCapture ==
    /\ captures < MaxCaptures /\ captures' = captures + 1
    /\ moment' = 0 /\ since' = 0
    /\ clipped' = ~clipped
    /\ truth' = <<>>
    /\ channels' = [c \in Channels |-> <<>>]
    /\ UNCHANGED half

CaptureNext == (\E line \in BOOLEAN, note \in Halves : SampleAll(line, note)) \/ RebuildCapture

CaptureSpec == CaptureInit /\ [][CaptureNext]_captureVars
-------------------------------------------------------------------------------
InOrder(w) == \A i \in DOMAIN w : i > 1 => w[i - 1][1] < w[i][1]

(* The screen shows what the probe saw, in order, up to now, in no more points *)
(* than it has room for; and shows nothing of a probe that is on nothing.      *)
ScreenIsTheSignal ==
    /\ InOrder(ScopeFrame) /\ Len(ScopeFrame) <= ScreenPoints + 1
    /\ \A i \in DOMAIN ScopeFrame : ScopeFrame[i][2] = VoltsOf(truth[ScopeFrame[i][1] + 1].line)
    /\ clipped /\ truth # <<>> => ScopeFrame # <<>> /\ Last(ScopeFrame)[1] = moment

(* A tone that has been played for the whole of the window, which was not too  *)
(* long to be kept whole, is heard at the pitch it has; a level too steady for *)
(* one, at the buzzer's own; and what is not driven is not heard.              *)
PitchIsTheTone ==
    LET from  == Max({0, moment - SoundSpan})
        whole == Len(SelectSeq(channels["sound"], LAMBDA s : s[1] >= from)) <= Points
        tone  == Within(<<1, 2 * half>>)
    IN  since <= from /\ whole /\ Pitch # <<>> =>
            /\ half > 0
            /\ \/ Pitch[1] * tone[2] = Pitch[2] * tone[1]
               \/ moment - from < 4 * half /\ Pitch = Within(<<1, Declared>>)

(* At every instant on the axis a trace that was not thinned is plotted at the *)
(* level the signal had, whatever the other traces on the axis.                *)
PlotIsTheSignal ==
    LET whole(c) == Len(SelectSeq(channels[c], LAMBDA s : s[1] >= Span[2] - PanelSpan)) <= Points
    IN  \A c \in DOMAIN PanelTraces, at \in Axis(PanelTraces) :
            LET was == truth[at + 1].line
            IN  whole(c) => Plotted(PanelTraces[c], at) \in {<<>>, <<IF c = "D1" THEN was ELSE VoltsOf(was)>>}

CaptureIsTheSignal == ScreenIsTheSignal /\ PitchIsTheTone /\ PlotIsTheSignal
===============================================================================
