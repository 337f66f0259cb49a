SPECIFICATION ScreenSpec
INVARIANT LightIsKnown
INVARIANT NotIdleWhileRecording
INVARIANT ViewsGiveWay
