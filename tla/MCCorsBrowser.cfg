CONSTANTS
  Disabled = Disabled
  Inherited = Inherited
  NoOrigin = NoOrigin
  NullOrigin = NullOrigin
  Any = Any
  Pages <- PageOrigins
  Server <- Api
  ServerConfigs <- Servers
  EndpointConfigs <- Endpoints
  FetchHeaders <- SentHeaders
SPECIFICATION Spec
INVARIANTS
  ForeignersReadNothing
  ForeignersReachNothing
  ConfiguredAreServed
PROPERTIES
  PreflightIsHonoured
