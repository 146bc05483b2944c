SPECIFICATION Spec
CONSTANTS
  button = button
  stick = stick
  finger = finger
  Buttons = {button}
  Sticks = {stick}
  Fingers = {finger}
  Places = {0, 1, 2, 3}
  Cap = 3
  Guard = 2
  Gap = 2
  MaxGestures = 3
  MaxTyped = 1
INVARIANT QueueIsSound
PROPERTIES KnownKeysAreSpaced PlayerIsSeen
