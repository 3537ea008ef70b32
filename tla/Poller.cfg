SPECIFICATION PollerSpec
CONSTANTS
  ch1 = ch1
  ch2 = ch2
  ch3 = ch3
  Channels <- MCChannels
INVARIANTS RegistrationAgrees
