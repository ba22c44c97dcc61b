CONSTANTS
  Null = Null
  Text <- Texts
  Reserved <- Bundled
  SlugMax = 4
  TitleMax = 2
  TagMax = 1
  TagsMax = 2
  ChangelogMax = 1
  MaxYaml = 3
  Slack = 1
  CreateBodies <- Creates
  UpdateBodies <- Updates
  PublishBodies <- Publishes
SPECIFICATION Spec
INVARIANT RowIsWellFormed
 
 
