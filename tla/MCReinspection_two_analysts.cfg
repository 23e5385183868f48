SPECIFICATION Spec
CONSTANTS
  one = one
  app = app
  ana = ana
  bia = bia
  n1 = n1
  n2 = n2
  Slots = {ana, bia}
  Serves <- TwoAnalysts
  Names = {n1}
  MaxReinspections = 1
  MaxPhotos = 1
  MaxImages = 2
  MaxBatch = 1
  MaxFailures = 0
INVARIANT ApprovedHasNoRejectedPhoto
