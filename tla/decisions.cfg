SPECIFICATION Spec
CONSTANTS
  Tenant = "default"
  Hash <- MCHash
  Glue <- MCGlue
  Text <- MCText
  NoSchema = NoSchema
  NoToken = NoToken
  Nothing = Nothing
  Absent = Absent
  Broken = Broken
  MaxInt64 = 32767
  MaxPageSize = 2
  DefaultPageSize = 2
  MaxInt = 7
  Topic <- MCTopic
  Filter <- MCFilter
  RuleSets <- MCRuleSets
  ListRules <- MCListRules
  Caller <- MCCaller
  Mapping <- MCMapping
  Provider <- MCProvider
  Message <- MCMessage
  PeerOrder <- MCOrder
  ListRequest <- MCListRequest
  SecretMaps <- MCSecretMaps
  PlainId <- MCPlainId
  AuthRequest <- MCAuthRequest
  CoapRequest <- MCCoapRequest
  CoapReply <- MCCoapReply
  Layers <- MCLayers
INVARIANTS DenyOverrides PublishReaches ForwardLands SchemaIsConjunction
INVARIANTS PageFits GrantVerifies PayloadSurvives StrongestSource
CHECK_DEADLOCK FALSE
