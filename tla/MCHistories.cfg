SPECIFICATION MCSpec
CONSTANTS
  c1 = c1
  c2 = c2
  k1 = k1
  k2 = k2
  rio = rio
  MaxPontos = 4
  MaxRota = 4
  MaxTrajetos = 3
  Gaps = {60, 130}
  Midnight = 400
  MaxPosicoes = 5
  MaxRegistros = 3
  Meianoite = 3
  DiasSoftruck = 3
  Concorrencia = 2
  MaxFeatures = 4
  Callers = {c1, c2}
  Coords = {k1, k2}
  Conhecidas = {k1}
  Cidades = {rio}
  Lote = 1
  PontosContestacao = 2
  MaxFalhas = 1
INVARIANTS TripsAreDrives DrivesAreTrips MapTellsTheTrip TimelineCarriesIgnition
  ViewsTellTheSameTrips AlarmsAreToldOnce RoutesKeepTheTrack AddressIsOfThePoint
\* A request that is answered ends.
CHECK_DEADLOCK FALSE
