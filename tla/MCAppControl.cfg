SPECIFICATION Spec
CONSTANTS
    EventDepth = 3
    UiStates = {"ready", "confirm"}
    MaxInputs = 5
INVARIANT NoForgottenRecording
INVARIANT RecordingUndisturbed
INVARIANT SleepTimerLives
CHECK_DEADLOCK FALSE
