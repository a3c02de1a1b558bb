SPECIFICATION FairSpec
CONSTANTS
    r1 = r1
    Resources = {r1}
    MaxVersion = 2
    MaxMishaps = 1
INVARIANT HistoryAdvances
INVARIANT RecordsArePublished
INVARIANT IInv
PROPERTY DeliveredIsRecorded
PROPERTY DeliversWhatIsApproved
PROPERTY ApprovedIsDelivered
PROPERTY GovernorsAreTold
