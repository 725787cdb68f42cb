SPECIFICATION Spec
CONSTANTS
  Width = 2
  Local = {0}
  NoName = NoName
  Policy <- AllowPolicy
  Port = 443
  Six = {2}
  Zones <- MCZones
  OtherHosts <- MCOtherHosts
  MaxChanges = 1
  MaxFailures = 1
  MaxRestarts = 1
INVARIANTS
  RoutesTypeOK
  WhatEntersIsProxied
  RecordedRoutesAreThere
  StaleNamesAreForgotten
PROPERTIES
  TheTableCatchesUp
