----------------------------- MODULE MCPipeline -----------------------------
(***************************************************************************)
(* Pipeline over series of twelve bars. A bar is one of eight shapes, placed  *)
(* at the close of the one before; the openings are stories the rest of    *)
(* the series may complete, each told upwards and downwards.               *)
(***************************************************************************)
EXTENDS Pipeline, SequencesExt

C(o, h, l, c) == [open |-> o, high |-> h, low |-> l, close |-> c]
Mirror(c) == C(-c.open, -c.low, -c.high, -c.close)

Up    == C(0, 4, 0, 4)    \* displaces
Leap  == C(2, 6, 2, 6)    \* opens above the bar before, and displaces
Drift == C(0, 1, -1, 1)   \* a small body between wicks
Spike == C(0, 3, -1, 0)   \* a wick that pierces
Down   == Mirror(Up)
Plunge == Mirror(Leap)
Sink   == Mirror(Drift)
Stab   == Mirror(Spike)

MCShapes == {Up, Leap, Drift, Spike, Down, Plunge, Sink, Stab}

\* A gap and a block that a fall through a swept low may turn into a breaker.
Breaking == <<Stab, Up, Up, Sink, Drift, Sink>>
\* A block above which the price leaps away, and may return to.
Returning == <<Up, Sink, Plunge, Down, Spike, Up>>
\* A fall after a taken high, which may shift the structure.
Shifting == <<Drift, Up, Plunge, Leap, Drift, Down>>
\* Swings, then nothing yet.
Ranging == <<Drift, Sink, Stab, Drift, Spike, Sink>>

First == C(10, 11, 9, 10)
Extend(s, c) == Append(s, After(s[Len(s)].close, c))
SeriesOf(shapes) == FoldLeft(Extend, <<First>>, shapes)

MCOpenings ==
  UNION {{SeriesOf(shapes), SeriesOf([i \in DOMAIN shapes |-> Mirror(shapes[i])])} :
         shapes \in {Breaking, Returning, Shifting, Ranging}}
=============================================================================
