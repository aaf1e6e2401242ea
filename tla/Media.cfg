SPECIFICATION MediaSpec
CONSTANTS
  p1 = p1
  a1 = a1
  x = x
  y = y
  Pcs = {p1}
  Addrs = {a1}
  Nobody = Nobody
  MaxInputs = 2
  MaxWrites = 2
  MaxRestarts = 1
  Owners = {x, y}
  Packets <- OneAfterAnother
  Kept = 3
  Reorder = 2
  Pattern <- ThreeLayers
  Top <- TwoChains
  Half = 3
  Wrap = 12
  First = 9
  MaxFrames = 8
  Swaps = 1
  Losses = {5, 20, 80, 200}
  Streams <- OneStream
  Absent = Absent
INVARIANTS TypesOK EventsInOrder GoneIsUnrouted VoiceIsContinuous DescribesFrames
PROPERTIES WritesComeOut FramesFollow TargetIsSteady
CHECK_DEADLOCK FALSE
