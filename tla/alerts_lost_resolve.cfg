SPECIFICATION Spec
CONSTANTS
  s1 = s1
  s2 = s2
  Never = Never
  Absent = Absent
  Gone = Gone
  Nobody = Nobody
  Streams <- OneStream
  Readings <- FrameReadings
  Eval = {e1, e2, e3}
  Mailable = {"bitrate-low", "fps-drop"}
  Loads = {FALSE}
  Duration <- Durations
  Gaps = {0, 1, 2}
  MaxAge = 3
INVARIANT Matching
