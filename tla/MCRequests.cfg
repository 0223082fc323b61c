SPECIFICATION MCSpec
CONSTANTS
  Components = {"router", "parser", "crow parser", "crow routing", "resources", "policy"}
  Methods = {Get, Post}
  RoutePaths <- MCRoutePaths
  Requests <- MCRequestPaths
  MaxRoutes = 3
  MaxHandlers = 1
  Blueprints <- MCBlueprints
  Urls <- MCUrls
  Unregisters <- MCUnregisters
  Patterns <- MCPatterns
  Clients <- MCClients
INVARIANTS RouterSound MessagesExact CrowMessagesExact CrowRoutesSound LibhttpSound
CHECK_DEADLOCK FALSE
SYMMETRY Symmetry
