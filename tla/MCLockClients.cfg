SPECIFICATION System
PROPERTIES
  AsyncProgress SomeoneServed
