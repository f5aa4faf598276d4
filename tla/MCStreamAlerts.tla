--------------------------- MODULE MCStreamAlerts ---------------------------
EXTENDS StreamAlerts, TLC

CONSTANTS s1, s2

OneStream == <<s1>>
TwoStreams == <<s1, s2>>

Reading(rate, fps) == [rate |-> rate, fps |-> fps]

\* All is well; too much; too little and too slow; nothing at all.
AllReadings ==
  {Reading("ok", 10), Reading("high", 10), Reading("low", 8), Reading("none", 0)}
FrameReadings == {Reading("ok", 10), Reading("ok", 8)}
BitrateReadings == {Reading("ok", 10), Reading("low", 10)}

\* The order of the durations in the code: 3 min, 30 s, at once.
Durations == "bitrate-high" :> 2 @@ "bitrate-low" :> 1 @@ "fps-drop" :> 0
=============================================================================
