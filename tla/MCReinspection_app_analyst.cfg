SPECIFICATION Spec
CONSTANTS
  one = one
  app = app
  ana = ana
  bia = bia
  n1 = n1
  n2 = n2
  Slots = {app, ana}
  Serves <- AppAndAnalyst
  Names = {n1, n2}
  MaxReinspections = 1
  MaxPhotos = 2
  MaxImages = 3
  MaxBatch = 2
  MaxFailures = 1
INVARIANTS ImagesOnDisk ApprovedHasNoRejectedPhoto SentNameWasInserted
