SPECIFICATION Spec
CONSTANTS
  one = one
  app = app
  ana = ana
  bia = bia
  n1 = n1
  n2 = n2
  Slots = {one}
  Serves <- Serial
  Names = {n1, n2}
  MaxReinspections = 2
  MaxPhotos = 2
  MaxImages = 3
  MaxBatch = 1
  MaxFailures = 0
INVARIANTS RejectedHasPhotoToResend SentImageWasInserted
